---- MODULE Spec2Model ----
(***************************************************************************)
(* Order-lifecycle management of the Binance futures bot: the retrying     *)
(* executor (OrderManager._retry) and the order placement pipeline         *)
(* (OrderManager.place_trade), src/orders.py.                              *)
(*                                                                         *)
(* Numbers.  The code computes in floats and rounds with                   *)
(* binance.helpers.round_step_size, which goes through Decimal(str(x)) and *)
(* removes the remainder modulo the step (truncation toward zero).  The    *)
(* model computes the same doubles: a double is a record [neg, m, e]       *)
(* standing for +/- m * 2^e with 2^52 <= m < 2^53 (m = <<>> for zero), and *)
(* quotient, product, sum and difference are rounded to the nearest double,*)
(* ties to even, as IEEE-754 arithmetic does.                              *)
(*   - the inputs price and atr are counted in HALF price steps of the     *)
(*     symbol (price 3000.0 of ETHUSDT, step 0.01, is 600000) and enter    *)
(*     the computation as the doubles nearest to those decimals;           *)
(*   - the rounded entry price is a pair <<s, 0>> of s whole price steps;  *)
(*   - the stop-loss and take-profit prices are doubles: the double of the *)
(*     rounded price, or price -/+ 0.001 * price as the floats give it,    *)
(*     which is seldom a price of the grid;                                *)
(*   - a quantity is a whole number of quantity steps.                     *)
(***************************************************************************)
EXTENDS Integers, Sequences, FiniteSets, TLC

(***************************************************************************)
(* Configuration, src/config.py and the precision table of src/orders.py.  *)
(***************************************************************************)
MARGIN_PER_TRADE == 200

MIN_NOTIONAL == 5

\* SL_MULTIPLIER = 1.0 and TP_MULTIPLIER = 1.5, in tenths.
SL_MULTIPLIER_X10 == 10

TP_MULTIPLIER_X10 == 15

LEVERAGE_MAP ==
    ("BTCUSDT" :> 5) @@ ("ETHUSDT" :> 5) @@
    ("NEARUSDT" :> 8) @@ ("SANDUSDT" :> 8) @@ ("RENDERUSDT" :> 8) @@
    ("SUIUSDT" :> 10) @@ ("HBARUSDT" :> 10) @@ ("LINKUSDT" :> 10) @@
    ("DOGEUSDT" :> 10) @@ ("1000FLOKIUSDT" :> 10)

\* A precision entry: the quantity step is qtyNum/qtyDen, the price step is
\* 1/priceDen.
Prec(qn, qd, pd) == [qtyNum |-> qn, qtyDen |-> qd, priceDen |-> pd]

SYMBOL_PRECISION ==
    ("BTCUSDT" :> Prec(1, 1000, 10)) @@
    ("ETHUSDT" :> Prec(1, 1000, 100)) @@
    ("NEARUSDT" :> Prec(1, 10, 1000)) @@
    ("FLOKIUSDT" :> Prec(1000, 1, 10000000)) @@
    ("1000FLOKIUSDT" :> Prec(1000, 1, 10000000)) @@
    ("DOGEUSDT" :> Prec(1, 1, 10000)) @@
    ("SANDUSDT" :> Prec(1, 1, 10000)) @@
    ("LINKUSDT" :> Prec(1, 10, 1000)) @@
    ("HBARUSDT" :> Prec(1, 1, 10000)) @@
    ("SUIUSDT" :> Prec(1, 1, 10000)) @@
    ("RENDERUSDT" :> Prec(1, 10, 1000))

\* SYMBOL_PRECISION.get(symbol, {"qty": 0.001, "price": 0.01})
PrecisionOf(symbol) ==
    IF symbol \in DOMAIN SYMBOL_PRECISION
    THEN SYMBOL_PRECISION[symbol]
    ELSE Prec(1, 1000, 100)

(***************************************************************************)
(* Natural numbers of any size, for the significands of the doubles.       *)
(***************************************************************************)
\* The element of a one-element set.  The operators below read the values
\* of their arguments through it, as in Only({e(x) : x \in {arg}}): the
\* argument is evaluated once, however often e reads x.
Only(S) == CHOOSE x \in S : TRUE

\* Limbs of the natural numbers used below: base 2^15, least limb first,
\* no leading zero limb; <<>> is 0.
Limb == 32768

\* 2^0 .. 2^15
PowersOfTwo ==
    <<1, 2, 4, 8, 16, 32, 64, 128, 256, 512, 1024, 2048, 4096, 8192, 16384,
      32768>>

\* n zero limbs.
Zeros(n) == [i \in 1 .. n |-> 0]

\* Limb i of a, 0 past its end.
LimbAt(a, i) == IF i <= Len(a) THEN a[i] ELSE 0

\* a without its leading zero limbs.
BigTrim(a0) ==
    Only({IF \A i \in DOMAIN a : a[i] = 0 THEN <<>>
          ELSE SubSeq(a, 1, CHOOSE i \in DOMAIN a :
                              a[i] # 0 /\ \A j \in DOMAIN a : j > i => a[j] = 0) :
          a \in {a0}})

\* The natural 0 <= n < 2^31.
BigOf(n0) ==
    Only({BigTrim(<<n % Limb, (n \div Limb) % Limb, n \div (Limb * Limb)>>) :
          n \in {n0}})

\* The value of a natural below 2^31.
BigToInt(a0) ==
    Only({LimbAt(a, 1) + Limb * LimbAt(a, 2) + Limb * Limb * LimbAt(a, 3) :
          a \in {a0}})

\* -1, 0, 1 as a < b, a = b, a > b.
BigCmp(a0, b0) ==
    Only({IF Len(a) # Len(b) THEN (IF Len(a) > Len(b) THEN 1 ELSE -1)
          ELSE IF \A i \in DOMAIN a : a[i] = b[i] THEN 0
          ELSE IF \E i \in DOMAIN a :
                    a[i] > b[i] /\ \A j \in DOMAIN a : j > i => a[j] = b[j]
          THEN 1 ELSE -1 :
          a \in {a0}, b \in {b0}})

\* The carry into limb i of the limb-wise sums s (each below 2 * Limb): some
\* lower limb overflows and every limb in between is full.
Carry(s, i) ==
    IF \E j \in 1 .. (i - 1) :
          s[j] >= Limb /\ \A k \in (j + 1) .. (i - 1) : s[k] = Limb - 1
    THEN 1 ELSE 0

\* The limbs of the limb-wise sums s, carries propagated.
Carried(s0) ==
    Only({BigTrim([i \in 1 .. (Len(s) + 1) |->
                      (LimbAt(s, i) + Carry(s, i)) % Limb]) :
          s \in {s0}})

\* a + b
BigAdd(a0, b0) ==
    Only({Carried([i \in 1 .. (IF Len(a) > Len(b) THEN Len(a) ELSE Len(b)) |->
                      LimbAt(a, i) + LimbAt(b, i)]) :
          a \in {a0}, b \in {b0}})

\* The borrow from limb i of the limb-wise differences d: the nearest lower
\* limb that is not zero is negative.
Borrow(d, i) ==
    IF \E j \in 1 .. (i - 1) :
          d[j] < 0 /\ \A k \in (j + 1) .. (i - 1) : d[k] = 0
    THEN 1 ELSE 0

\* The limbs of the limb-wise differences d, borrows propagated.
Borrowed(d0) ==
    Only({BigTrim([i \in 1 .. Len(d) |-> (d[i] - Borrow(d, i) + Limb) % Limb]) :
          d \in {d0}})

\* a - b for a >= b.
BigSub(a0, b0) ==
    Only({Borrowed([i \in 1 .. Len(a) |-> a[i] - LimbAt(b, i)]) :
          a \in {a0}, b \in {b0}})

\* a * k for 0 <= k < Limb: the low halves of the limb products plus their
\* high halves one limb up.
BigMulSmall(a0, k0) ==
    Only({BigAdd([i \in 1 .. Len(a) |-> (a[i] * k) % Limb],
                 <<0>> \o [i \in 1 .. Len(a) |-> (a[i] * k) \div Limb]) :
          a \in {a0}, k \in {k0}})

\* a * 2^n
BigShl(a0, n0) ==
    Only({IF a = <<>> THEN <<>>
          ELSE Zeros(n \div 15) \o BigMulSmall(a, PowersOfTwo[(n % 15) + 1]) :
          a \in {a0}, n \in {n0}})

\* acc + a * (limbs i and up of b, in place).
RECURSIVE BigMulAt(_, _, _, _)
BigMulAt(a0, b0, i0, acc0) ==
    Only({IF i > Len(b) THEN acc
          ELSE BigMulAt(a, b, i + 1,
                        BigAdd(acc, Zeros(i - 1) \o BigMulSmall(a, b[i]))) :
          a \in {a0}, b \in {b0}, i \in {i0}, acc \in {acc0}})

\* a * b
BigMul(a, b) == BigMulAt(a, b, 1, <<>>)

\* Number of binary digits of a.
BigBits(a0) ==
    Only({IF a = <<>> THEN 0
          ELSE 15 * (Len(a) - 1)
               + (CHOOSE k \in 1 .. 15 :
                    PowersOfTwo[k] <= a[Len(a)] /\ a[Len(a)] < PowersOfTwo[k + 1]) :
          a \in {a0}})

BigOdd(a) == a # <<>> /\ a[1] % 2 = 1

\* d * g * Limb^j <= n
Fits(n, d, j, g) == BigCmp(BigMulSmall(Zeros(j) \o d, g), n) <= 0

\* Limb j of the quotient n / d (the greatest g with d * g * Limb^j <= n),
\* for n < d * Limb^(j + 1) and a divisor whose top limb has all its 15
\* binary digits: the two top limbs of n over the top limb of d exceed it by
\* 2 at most.
Digit(n0, d0, j0) ==
    Only({IF Fits(n, d, j, g) THEN g
          ELSE IF Fits(n, d, j, g - 1) THEN g - 1
          ELSE g - 2 :
          n \in {n0}, d \in {d0}, j \in {j0},
          g \in {Only({IF e >= Limb THEN Limb - 1 ELSE e :
                       e \in {(LimbAt(n0, j0 + Len(d0) + 1) * Limb
                                 + LimbAt(n0, j0 + Len(d0)))
                              \div d0[Len(d0)]}})}})

\* Long division, limb j of the quotient first: <<q, r>> with
\* n + q0 * d * Limb^(j + 1) = (q0 * Limb^(j + 1) + q) * d + r and r < d,
\* given the limbs q0 of the quotient above limb j.
RECURSIVE BigDivAt(_, _, _, _)
BigDivAt(n0, d0, j0, q0) ==
    Only({IF j < 0 THEN <<BigTrim(q), n>>
          ELSE Only({BigDivAt(BigSub(n, BigMulSmall(Zeros(j) \o d, g)), d,
                              j - 1, <<g>> \o q) :
                     g \in {Digit(n, d, j)}}) :
          n \in {n0}, d \in {d0}, j \in {j0}, q \in {q0}})

\* <<q, r * 2^s, d * 2^s>> for the quotient q and the remainder r of n / d
\* (d > 0), with s the binary digits that the top limb of d lacks.
BigDiv(n0, d0) ==
    Only({BigDivAt(n, d, Len(n) - Len(d), <<>>) \o <<d>> :
          n \in {BigShl(n0, 15 * Len(d0) - BigBits(d0))},
          d \in {BigShl(d0, 15 * Len(d0) - BigBits(d0))}})

\* A double other than an infinity, a NaN or a subnormal: (-1)^neg * m * 2^e
\* with 2^52 <= m < 2^53, or m = 0.
FZero == [neg |-> FALSE, m |-> <<>>, e |-> 0]

\* The double of significand m (2^52 <= m <= 2^53) and exponent e.
FPack(neg, m0, e) ==
    Only({IF BigBits(m) = 54
          THEN [neg |-> neg, m |-> BigShl(<<1>>, 52), e |-> e + 1]
          ELSE [neg |-> neg, m |-> m, e |-> e] :
          m \in {m0}})

\* The double nearest to (q + r / d) * 2^e, ties to even, for qrd = <<q, r, d>>
\* with 2^52 <= q < 2^53 and r < d.
FRound(neg, qrd0, e) ==
    Only({IF c > 0 \/ (c = 0 /\ BigOdd(qrd[1]))
          THEN FPack(neg, BigAdd(qrd[1], <<1>>), e)
          ELSE FPack(neg, qrd[1], e) :
          qrd \in {qrd0}, c \in {BigCmp(BigAdd(qrd0[2], qrd0[2]), qrd0[3])}})

\* The double nearest to n / d * 2^e for 2^52 <= n / d < 2^53.
FQuot(neg, n, d, e) == FRound(neg, BigDiv(n, d), e)

\* The double nearest to n / d * 2^e for 2^52 <= n / d < 2^54.
FNorm(neg, n0, d0, e) ==
    Only({IF BigCmp(n, BigShl(d, 53)) >= 0
          THEN FQuot(neg, n, BigAdd(d, d), e + 1)
          ELSE FQuot(neg, n, d, e) :
          n \in {n0}, d \in {d0}})

\* The double nearest to n * 2^e / d (ties to even), n and d > 0 naturals:
\* n or d is scaled by the power of two that leaves 53 or 54 binary digits
\* in the quotient.
Fl(neg, n0, e, d0) ==
    Only({IF n = <<>> THEN FZero
          ELSE IF k >= 0 THEN FNorm(neg, BigShl(n, k), d, e - k)
          ELSE FNorm(neg, n, BigShl(d, -k), e - k) :
          n \in {n0}, d \in {d0}, k \in {53 - (BigBits(n0) - BigBits(d0))}})

\* float(n / d) for integers n and d > 0 given in decimal notation.
FOfRat(n, d) ==
    IF n < 0 THEN Fl(TRUE, BigOf(-n), 0, BigOf(d))
    ELSE Fl(FALSE, BigOf(n), 0, BigOf(d))

\* -x
FNeg(x0) ==
    Only({IF x.m = <<>> THEN x ELSE [x EXCEPT !.neg = ~x.neg] : x \in {x0}})

\* x * y
FMul(x0, y0) ==
    Only({Fl(x.neg # y.neg, BigMul(x.m, y.m), x.e + y.e, <<1>>) :
          x \in {x0}, y \in {y0}})

\* x / y, y # 0
FDiv(x0, y0) ==
    Only({Fl(x.neg # y.neg, x.m, x.e - y.e, y.m) : x \in {x0}, y \in {y0}})

\* The double nearest to sa * a * 2^e + sb * b * 2^e for naturals a, b > 0 and
\* signs sa, sb (TRUE is minus).
FSum(sa, a0, sb, b0, e) ==
    Only({IF sa = sb THEN Fl(sa, BigAdd(a, b), e, <<1>>)
          ELSE IF c = 0 THEN FZero
          ELSE IF c > 0 THEN Fl(sa, BigSub(a, b), e, <<1>>)
          ELSE Fl(sb, BigSub(b, a), e, <<1>>) :
          a \in {a0}, b \in {b0}, c \in {BigCmp(a0, b0)}})

\* x + y
FAdd(x0, y0) ==
    Only({IF x.m = <<>> THEN y
          ELSE IF y.m = <<>> THEN x
          ELSE IF x.e < y.e
          THEN FSum(x.neg, x.m, y.neg, BigShl(y.m, y.e - x.e), x.e)
          ELSE FSum(x.neg, BigShl(x.m, x.e - y.e), y.neg, y.m, y.e) :
          x \in {x0}, y \in {y0}})

\* x - y
FSub(x, y) == FAdd(x, FNeg(y))

\* -1, 0, 1 as |x| < |y|, |x| = |y|, |x| > |y|.
FCmpAbs(x, y) ==
    IF x.m = <<>> THEN (IF y.m = <<>> THEN 0 ELSE -1)
    ELSE IF y.m = <<>> THEN 1
    ELSE IF x.e # y.e THEN (IF x.e > y.e THEN 1 ELSE -1)
    ELSE BigCmp(x.m, y.m)

\* -1, 0, 1 as x < y, x = y, x > y.
FCmp(x0, y0) ==
    Only({IF x.m = <<>> /\ y.m = <<>> THEN 0
          ELSE IF x.m = <<>> THEN (IF y.neg THEN 1 ELSE -1)
          ELSE IF y.m = <<>> THEN (IF x.neg THEN -1 ELSE 1)
          ELSE IF x.neg # y.neg THEN (IF x.neg THEN -1 ELSE 1)
          ELSE IF x.neg THEN -FCmpAbs(x, y) ELSE FCmpAbs(x, y) :
          x \in {x0}, y \in {y0}})

(***************************************************************************)
(* Prices and binance.helpers.round_step_size.                             *)
(***************************************************************************)
\* Python's None for a numeric or price keyword argument.
None == <<>>

\* The whole steps of size sn/sd in |x|, for the double x # 0.
WholeSteps(x, sn, sd) ==
    IF x.e >= 0
    THEN BigToInt(BigDiv(BigMul(BigShl(x.m, x.e), BigOf(sd)), BigOf(sn))[1])
    ELSE BigToInt(BigDiv(BigMul(x.m, BigOf(sd)), BigShl(BigOf(sn), -x.e))[1])

\* k + 1 when (k + 1) * sn/sd reads back as |x|, and else k.
StepsOf(x, k0, sn, sd) ==
    Only({IF nxt.m = x.m /\ nxt.e = x.e THEN k + 1 ELSE k :
          k \in {k0},
          nxt \in {Fl(FALSE, BigMul(BigOf(k0 + 1), BigOf(sn)), 0, BigOf(sd))}})

\* round_step_size(x, step) for the double x and the step sn/sd, in whole
\* steps: float(q - q % Decimal(str(step))) with q = Decimal(str(x)).  str(x)
\* is the shortest decimal that reads back as x, and Decimal's remainder has
\* the sign of q, so q is truncated toward zero to a multiple of the step.
\* With k the whole steps in |x| itself: q is the multiple (k + 1) * step when
\* that multiple reads back as x (it has fewer than 16 digits, and no other
\* decimal that short does), and otherwise q lies with |x| from k steps up
\* to, not including, k + 1 steps.
round_step_size(x0, sn, sd) ==
    Only({IF x.m = <<>> THEN 0
          ELSE IF x.neg THEN -StepsOf(x, WholeSteps(x, sn, sd), sn, sd)
          ELSE StepsOf(x, WholeSteps(x, sn, sd), sn, sd) :
          x \in {x0}})

\* A price of the grid: s whole steps (m, thousandths of a step, is 0).
Px(s, m) == <<s, m>>

\* The float round_step_size returns for k whole steps of 1/den: float(q) of
\* the decimal q = k / den.
StepFloat(k, den) == FOfRat(k, den)

\* min(a, b) of Python on floats: b when b < a, and else a.
FMin(a0, b0) ==
    Only({IF FCmp(b, a) < 0 THEN b ELSE a : a \in {a0}, b \in {b0}})

\* max(a, b) of Python on floats: b when b > a, and else a.
FMax(a0, b0) ==
    Only({IF FCmp(b, a) > 0 THEN b ELSE a : a \in {a0}, b \in {b0}})

\* The literal 0.001 of line 115.
BufferRate == FOfRat(1, 1000)

\* price_buffer = 0.001 * price, line 115, for the float price.
price_buffer(price) == FMul(BufferRate, price)

\* price - price_buffer, lines 117 and 126.
MinusBuffer(price0) ==
    Only({FSub(price, price_buffer(price)) : price \in {price0}})

\* price + price_buffer, lines 118 and 125.
PlusBuffer(price0) ==
    Only({FAdd(price, price_buffer(price)) : price \in {price0}})

(***************************************************************************)
(* place_trade, lines 93-131: sizing, protective prices, rounding and      *)
(* validation.  All of it runs before the first Gateway call.  The         *)
(* arguments price and atr are counted in half price steps of the symbol;  *)
(* the call receives them as floats.                                       *)
(***************************************************************************)
\* The float a caller passes for h half price steps of the symbol.
PriceArg(symbol, h) == FOfRat(h, 2 * PrecisionOf(symbol).priceDen)

\* config.py: SL_MULTIPLIER = 1.0
SL_MULTIPLIER == FOfRat(SL_MULTIPLIER_X10, 10)

\* config.py: TP_MULTIPLIER = 1.5
TP_MULTIPLIER == FOfRat(TP_MULTIPLIER_X10, 10)

\* notional = MARGIN_PER_TRADE * lev
Notional(symbol) == MARGIN_PER_TRADE * LEVERAGE_MAP[symbol]

\* qty = notional / price, line 95: a float.
RawQty(symbol, price) ==
    FDiv(FOfRat(Notional(symbol), 1), PriceArg(symbol, price))

\* qty = round_step_size(qty, prec["qty"]): whole quantity steps.
Qty(symbol, price) ==
    round_step_size(RawQty(symbol, price), PrecisionOf(symbol).qtyNum,
                    PrecisionOf(symbol).qtyDen)

\* qty * price < MIN_NOTIONAL, line 96, with the unrounded qty: the float
\* product of the float quotient, which may fall one unit in the last place
\* short of the notional.
BelowMinNotional(symbol, price, minNotional) ==
    FCmp(FMul(RawQty(symbol, price), PriceArg(symbol, price)),
         FOfRat(minNotional, 1)) < 0

\* sl = price -/+ SL_MULTIPLIER * atr, line 101: a float.
RawSl(symbol, side, price, atr) ==
    LET d == FMul(SL_MULTIPLIER, PriceArg(symbol, atr))
    IN  IF side = "BUY"
        THEN FSub(PriceArg(symbol, price), d)
        ELSE FAdd(PriceArg(symbol, price), d)

\* tp = price +/- TP_MULTIPLIER * atr, line 102: a float.
RawTp(symbol, side, price, atr) ==
    LET d == FMul(TP_MULTIPLIER, PriceArg(symbol, atr))
    IN  IF side = "BUY"
        THEN FAdd(PriceArg(symbol, price), d)
        ELSE FSub(PriceArg(symbol, price), d)

\* round_step_size(x, prec["price"]): whole price steps.
RoundedToPriceStep(symbol, x) ==
    round_step_size(x, 1, PrecisionOf(symbol).priceDen)

\* price = round_step_size(price, prec["price"]), line 107.
RoundedPrice(symbol, price) ==
    RoundedToPriceStep(symbol, PriceArg(symbol, price))

\* The float `price` of lines 107-131: the rounded entry price.
PriceFloat(symbol, p) == StepFloat(p, PrecisionOf(symbol).priceDen)

\* sl = round_step_size(sl, prec["price"]), line 108, then line 117 or 125:
\* min(sl, price - price_buffer) on a BUY, max(sl, price + price_buffer) on a
\* SELL, in floats.
Sl(symbol, side, price, atr) ==
    Only({IF side = "BUY" THEN FMin(r, MinusBuffer(p)) ELSE FMax(r, PlusBuffer(p)) :
          r \in {PriceFloat(symbol,
                    RoundedToPriceStep(symbol, RawSl(symbol, side, price, atr)))},
          p \in {PriceFloat(symbol, RoundedPrice(symbol, price))}})

\* tp = round_step_size(tp, prec["price"]), line 109, then line 118 or 126:
\* max(tp, price + price_buffer) on a BUY, min(tp, price - price_buffer) on a
\* SELL, in floats.
Tp(symbol, side, price, atr) ==
    Only({IF side = "BUY" THEN FMax(r, PlusBuffer(p)) ELSE FMin(r, MinusBuffer(p)) :
          r \in {PriceFloat(symbol,
                    RoundedToPriceStep(symbol, RawTp(symbol, side, price, atr)))},
          p \in {PriceFloat(symbol, RoundedPrice(symbol, price))}})

\* The locals of place_trade once line 118 or 126 is passed.
Locals(symbol, side, price, atr) ==
    [lev   |-> LEVERAGE_MAP[symbol],
     qty   |-> Qty(symbol, price),
     price |-> Px(RoundedPrice(symbol, price), 0),
     sl    |-> Sl(symbol, side, price, atr),
     tp    |-> Tp(symbol, side, price, atr)]

\* Mutant: the validity test compares strictly, so a protective price equal to
\* the entry passes.
SlTpInvalid_Strict(symbol, side, l) ==
    Only({IF side = "BUY"
          THEN FCmp(l.sl, price) > 0 \/ FCmp(l.tp, price) < 0
          ELSE FCmp(l.sl, price) < 0 \/ FCmp(l.tp, price) > 0 :
          price \in {PriceFloat(symbol, l.price[1])}})

\* "BUY TP/SL invalid" / "SELL TP/SL invalid", lines 119 and 127, on the
\* locals l: sl >= price or tp <= price for BUY, sl <= price or tp >= price
\* for SELL, on floats.
SlTpInvalid(symbol, side, l) ==
    Only({IF side = "BUY"
          THEN FCmp(l.sl, price) >= 0 \/ FCmp(l.tp, price) <= 0
          ELSE FCmp(l.sl, price) <= 0 \/ FCmp(l.tp, price) >= 0 :
          price \in {PriceFloat(symbol, l.price[1])}})

(***************************************************************************)
(* Bounds of the model.                                                    *)
(***************************************************************************)
\* Failures (raised exceptions) of the Gateway and of the trade log that the
\* environment may inject into one place_trade call.
MaxFaults == 3

\* Length of the list futures_position_information may return.
MaxPositions == 2

\* The atr inputs 0..MaxAtr, in half price steps.
MaxAtr == 3

\* A minimum notional an operator may configure above the shipped one.
HighMinNotional == 1500

\* A stand-alone _retry call: retries in -1..MaxRetries, initial delay in
\* 0..MaxDelay seconds, func returning a value in 1..MaxValue.
MaxRetries == 4

MaxDelay == 3

MaxValue == 2

\* _retry's defaults: retries = 3, delay = 1.0; the fill poll: range(5),
\* asyncio.sleep(1).
DefaultRetries == 3

DefaultDelay == 1

FillPolls == 5

PollSleep == 1

(***************************************************************************)
(* OrderManager._retry, lines 73-83.                                       *)
(***************************************************************************)
\* What one pass of the loop body does after func returned (ok) or raised.
RetryOutcome(attempt, retries, ok) ==
    IF ok THEN "return"
    ELSE IF attempt = retries - 1 THEN "raise"
    ELSE "sleep"

\* Mutant: the delay grows by one second instead of doubling.
NextDelay_Increment(d) == d + 1

\* delay *= 2
NextDelay(d) == d * 2

(***************************************************************************)
(* State.                                                                  *)
(***************************************************************************)
VARIABLES
    cfg,        \* module configuration and the OrderManager's collaborators
    pc,         \* where the place_trade call is
    args,       \* its arguments
    loc,        \* its locals lev, qty, price, sl, tp
    attempt,    \* _retry's loop index for the call in progress
    delay,      \* _retry's current delay
    polls,      \* futures_get_order calls made by the fill poll
    pos,        \* what futures_position_information returned
    orders,     \* order ids the Gateway returned: entry, tp, sl
    calls,      \* every Gateway call made, in order
    sleeps,     \* every asyncio.sleep duration, in order
    tp_orders,  \* ws_manager.tp_orders: symbol -> take-profit order id
    tasks,      \* monitor_and_switch_to_trailing tasks created
    sheet_rows, \* rows appended to the trade log
    result,     \* how the call ended
    logged,     \* logger messages of the call, by kind, in order
    faults,     \* failures injected so far
    nextId,     \* next order id the Gateway hands out
    rt,         \* a stand-alone _retry call
    mon,        \* a monitor_and_switch_to_trailing task
    ws          \* BinanceWSManager._handle_event and its history

pipeVars == <<cfg, pc, args, loc, attempt, delay, polls, pos, orders, calls,
              sleeps, tp_orders, tasks, sheet_rows, result, logged, faults,
              nextId>>

vars == <<cfg, pc, args, loc, attempt, delay, polls, pos, orders, calls,
          sleeps, tp_orders, tasks, sheet_rows, result, logged, faults, nextId,
          rt, mon, ws>>

\* config.py as shipped, run as main.py wires it (sheet and ws_manager set).
Shipped ==
    [USE_MARKET_ENTRY |-> TRUE, USE_MARKET_TP |-> TRUE,
     USE_TRAILING_STOP |-> TRUE, MIN_NOTIONAL |-> MIN_NOTIONAL,
     sheet |-> TRUE, ws_manager |-> TRUE]

\* The deployments explored: the shipped one; the unit test's wiring (no
\* sheet) with a limit entry; the constructor's defaults (no sheet, no
\* ws_manager) with a limit take-profit; limit entry and take-profit without
\* trailing stop; the shipped one with a higher minimum notional.
Configs ==
    { Shipped,
      [Shipped EXCEPT !.USE_MARKET_ENTRY = FALSE, !.sheet = FALSE],
      [Shipped EXCEPT !.USE_MARKET_TP = FALSE, !.sheet = FALSE,
                      !.ws_manager = FALSE],
      [Shipped EXCEPT !.USE_MARKET_ENTRY = FALSE, !.USE_MARKET_TP = FALSE,
                      !.USE_TRAILING_STOP = FALSE],
      [Shipped EXCEPT !.MIN_NOTIONAL = HighMinNotional] }

\* Symbols a caller may pass: configured ones, one with a precision entry and
\* no leverage entry, one with neither.
Symbols ==
    {"BTCUSDT", "ETHUSDT", "NEARUSDT", "1000FLOKIUSDT", "FLOKIUSDT", "XRPUSDT"}

Sides == {"BUY", "SELL"}

\* (price, atr) pairs in half price steps.  NEARUSDT takes the grid: prices
\* of zero, below one step and of one step and a half, small atrs around the
\* buffer, and a price whose buffer exceeds a step.  ETHUSDT and BTCUSDT take
\* the reference trades of the spec (3000.0 / 50.0) and of the unit test
\* (65000.0 / 100.0), BTCUSDT also a price above notional / quantity step
\* (2000000.0), a trade whose float stop-loss falls short of a price step
\* (60915.6 / 404.3) and one whose float stop-loss falls short of zero
\* (0.05 / 0.15); 1000FLOKIUSDT a price whose float quotient falls short of
\* a quantity step (0.00064) and a trade whose rounded protective price is
\* the entry -/+ 0.1% exactly (0.0001 / 0.0000001); the others one trade each.
PriceAtr(symbol) ==
    CASE symbol = "NEARUSDT" ->
            ({0, 1, 3} \X (0 .. MaxAtr)) \cup {<<2003, 0>>, <<2003, 4>>}
      [] symbol = "ETHUSDT" -> {<<600000, 10000>>}
      [] symbol = "BTCUSDT" ->
            {<<1300000, 2000>>, <<40000000, 2000>>, <<1218312, 8086>>,
             <<1, 3>>}
      [] symbol = "1000FLOKIUSDT" -> {<<12800, 400>>, <<2000, 2>>}
      [] OTHER -> {<<2003, 4>>}

NoArgs == [symbol |-> "", side |-> "", price |-> 0, atr |-> 0]

NoLocals == [lev |-> 0, qty |-> 0, price |-> None, sl |-> None, tp |-> None]

NoOrders == [entry |-> 0, tp |-> 0, sl |-> 0]

NoPosition == [seen |-> FALSE, isList |-> FALSE, amts |-> <<>>]

\* A stand-alone _retry call before it starts.  value 0 is Python's None;
\* error k is the exception the k-th invocation of func raised.
RtIdle ==
    [state |-> "idle", retries |-> 0, delay0 |-> 0, attempt |-> 0,
     delay |-> 0, invoked |-> 0, failed |-> 0, succeeded |-> FALSE,
     produced |-> 0, sleeps |-> <<>>, value |-> 0, error |-> 0]

\* No monitor task is running.  Prices the task polls are in whole price
\* steps; -1 in `ticks` stands for a ticker_price query that raised.
\* closed_at is -1 while the trade's position is open, and else the number of
\* Gateway calls the task had issued when the exchange closed the position.
MonIdle ==
    [pc |-> "none", sym |-> "", entry_price |-> <<0, 0>>, atr |-> 0,
     side |-> "", sl_order_id |-> 0, break_even_set |-> FALSE,
     be_activation_price |-> FZero, trailing_activation_price |-> FZero,
     mark_price |-> 0, ticks |-> <<>>, calls |-> <<>>, at |-> <<>>,
     sleeps |-> 0, nextId |-> 0, closed_at |-> -1]

\* The reconciler between two events, with nothing handled yet.
WsIdle ==
    [pc |-> "idle", event |-> <<>>, tp_id |-> 0, cancel_ok |-> TRUE,
     before |-> <<>>, log |-> <<>>]

PipeInit ==
    /\ pc = "idle"
    /\ args = NoArgs
    /\ loc = NoLocals
    /\ attempt = 0
    /\ delay = 0
    /\ polls = 0
    /\ pos = NoPosition
    /\ orders = NoOrders
    /\ calls = <<>>
    /\ sleeps = <<>>
    /\ tp_orders = <<>>
    /\ tasks = <<>>
    /\ sheet_rows = <<>>
    /\ result = "none"
    /\ logged = <<>>
    /\ faults = 0
    /\ nextId = 1

Init ==
    /\ cfg \in Configs
    /\ PipeInit
    /\ rt = RtIdle
    /\ mon = MonIdle
    /\ ws = WsIdle

(***************************************************************************)
(* The Gateway (the exchange client) and the trade log, as place_trade     *)
(* sees them.                                                              *)
(***************************************************************************)
\* One Gateway call: the method, its keyword arguments, whether it returned
\* (ok) or raised, and what it returned.
Call(op, kw, ok, resp) == [op |-> op, kw |-> kw, ok |-> ok, resp |-> resp]

Raised == [raised |-> TRUE]

\* futures_position_information: a list of positions (their positionAmt, by
\* sign), or something that is no list (a mock's return value).
PositionAmts == {-1, 0, 1}

PositionResponses ==
    {[seen |-> TRUE, isList |-> FALSE, amts |-> <<>>]}
    \cup {[seen |-> TRUE, isList |-> TRUE, amts |-> a] :
            a \in UNION {[1 .. n -> PositionAmts] : n \in 0 .. MaxPositions}}

\* futures_get_order: a dict with a status, or something that is no dict.
OrderInfos ==
    {[isDict |-> TRUE, status |-> "NEW"],
     [isDict |-> TRUE, status |-> "FILLED"],
     [isDict |-> FALSE, status |-> ""]}

\* What is kept of an answer: an answer carrying no non-zero amount (no list,
\* an empty list, a list of zero amounts) is kept as the empty list; lines
\* 142-149 read nothing else of it and `pos` is not read again after them.
NoOpenPosition == [seen |-> TRUE, isList |-> TRUE, amts |-> <<>>]

Recorded(r) ==
    IF r.isList /\ \E i \in DOMAIN r.amts : r.amts[i] # 0
    THEN r
    ELSE NoOpenPosition

\* Mutant: the guard tests amt > 0 and so misses a short position.
HasOpenPosition_LongOnly(r) == r.isList /\ \E i \in DOMAIN r.amts : r.amts[i] > 0

\* lines 142-149: isinstance(pos, list) and some float(positionAmt) != 0
HasOpenPosition(r) == r.isList /\ \E i \in DOMAIN r.amts : r.amts[i] # 0

\* line 166: not isinstance(info, dict) or info.get("status") == "FILLED"
EntryFilled(info) == ~info.isDict \/ info.status = "FILLED"

\* line 137
Opposite(side) == IF side = "BUY" THEN "SELL" ELSE "BUY"

\* line 136
EntryType == IF cfg.USE_MARKET_ENTRY THEN "MARKET" ELSE "LIMIT"

\* lines 152-160: the entry order's keyword arguments.
EntryOrder ==
    [symbol |-> args.symbol, side |-> args.side, type |-> EntryType,
     quantity |-> loc.qty,
     price |-> IF EntryType = "MARKET" THEN None ELSE loc.price,
     timeInForce |-> IF EntryType = "LIMIT" THEN "GTC" ELSE "None"]

\* lines 174-200: the take-profit order's keyword arguments.
TpOrder ==
    IF cfg.USE_MARKET_TP
    THEN [symbol |-> args.symbol, side |-> Opposite(args.side),
          type |-> "TAKE_PROFIT_MARKET", stopPrice |-> loc.tp,
          reduceOnly |-> TRUE, closePosition |-> TRUE]
    ELSE [symbol |-> args.symbol, side |-> Opposite(args.side),
          type |-> "LIMIT", timeInForce |-> "GTC", price |-> loc.tp,
          quantity |-> loc.qty, reduceOnly |-> TRUE]

\* lines 208-217: the stop-loss order's keyword arguments.
SlOrder ==
    [symbol |-> args.symbol, side |-> Opposite(args.side),
     type |-> "STOP_MARKET", stopPrice |-> loc.sl, reduceOnly |-> TRUE,
     closePosition |-> TRUE, timeInForce |-> "GTC"]

\* reporter.log_trade: the row appended to the sheet.
Row(status) ==
    [symbol |-> args.symbol, side |-> args.side, qty |-> loc.qty,
     entry |-> loc.price, tp |-> loc.tp, sl |-> loc.sl, status |-> status]

\* Mutant: the task is seeded with the rounded stop-loss price instead of the
\* entry.
MonitorTask_StopPrice(slOrderId) ==
    [sym |-> args.symbol,
     entry_price |-> Px(RoundedToPriceStep(args.symbol,
                            RawSl(args.symbol, args.side, args.price, args.atr)), 0),
     atr |-> args.atr,
     sl_order_id |-> slOrderId, side |-> args.side]

\* lines 222-231: the arguments of the task created.
MonitorTask(slOrderId) ==
    [sym |-> args.symbol, entry_price |-> loc.price, atr |-> args.atr,
     sl_order_id |-> slOrderId, side |-> args.side]

(***************************************************************************)
(* How a step of place_trade ends.  f counts the failures the step has     *)
(* already taken from the environment.                                     *)
(***************************************************************************)
\* The call goes on to the step `next`.
Continue(next, msgs, f) ==
    /\ pc' = next
    /\ logged' = logged \o msgs
    /\ faults' = faults + f
    /\ UNCHANGED <<result, sheet_rows>>

\* A return statement outside the except clause.
Return(value, msgs, f) ==
    /\ pc' = "done"
    /\ result' = value
    /\ logged' = logged \o msgs
    /\ faults' = faults + f
    /\ UNCHANGED sheet_rows

\* An exception leaves place_trade.
Propagate(exc, msgs, f) ==
    /\ pc' = "done"
    /\ result' = exc
    /\ logged' = logged \o msgs
    /\ faults' = faults + f
    /\ UNCHANGED sheet_rows

\* lines 237-241, the except clause: log, write the ERROR row if there is a
\* sheet, return False.  log_trade is not guarded: when append_row raises,
\* the exception leaves place_trade.
Handler(msgs, f) ==
    IF cfg.sheet
    THEN \/ /\ pc' = "done"
            /\ result' = "False"
            /\ logged' = logged \o msgs \o <<"trade_failed">>
            /\ faults' = faults + f
            /\ sheet_rows' = Append(sheet_rows, Row("ERROR"))
         \/ /\ faults + f < MaxFaults
            /\ Propagate("LogError", msgs \o <<"trade_failed">>, f + 1)
    ELSE Return("False", msgs \o <<"trade_failed">>, f)

(***************************************************************************)
(* place_trade, step by step: one action per stretch of code between two   *)
(* awaits.                                                                 *)
(***************************************************************************)
\* Mutant: the validation sits inside the try, after the position query.
ValidationReject_AfterQuery(msgs) ==
    /\ Return("False", msgs, 0)
    /\ calls' = Append(calls,
            Call("futures_position_information", [symbol |-> args'.symbol],
                 TRUE, [seen |-> TRUE, isList |-> TRUE, amts |-> <<>>]))

\* A validation rejection, lines 96-100 and 119-131: log and return False.
\* Nothing has been awaited yet.
ValidationReject(msgs) ==
    /\ Return("False", msgs, 0)
    /\ UNCHANGED calls

\* Lines 93-137: the call starts, sizes and validates the trade.
Start(symbol, side, price, atr) ==
    /\ pc = "idle"
    /\ args' = [symbol |-> symbol, side |-> side, price |-> price, atr |-> atr]
    /\ IF symbol \notin DOMAIN LEVERAGE_MAP
       THEN \* LEVERAGE_MAP[symbol], line 93, outside the try
            /\ Propagate("KeyError", <<>>, 0)
            /\ UNCHANGED <<loc, calls>>
       ELSE IF price = 0
       THEN \* notional / price, line 95, outside the try
            /\ Propagate("ZeroDivisionError", <<>>, 0)
            /\ UNCHANGED <<loc, calls>>
       ELSE IF BelowMinNotional(symbol, price, cfg.MIN_NOTIONAL)
       THEN /\ ValidationReject(<<"notional_below_min">>)
            /\ UNCHANGED loc
       ELSE /\ loc' = Locals(symbol, side, price, atr)
            /\ IF SlTpInvalid(symbol, side, loc')
               THEN ValidationReject(<<"rounded", "sltp_invalid">>)
               ELSE /\ Continue("position", <<"rounded", "placing">>, 0)
                    /\ UNCHANGED calls
    /\ UNCHANGED <<cfg, attempt, delay, polls, pos, orders, sleeps, tp_orders,
                   tasks, nextId, rt, mon, ws>>

\* Lines 141-149: the duplicate-entry guard.  The query is not retried.
PositionQuery ==
    /\ pc = "position"
    /\ LET kw == [symbol |-> args.symbol] IN
       \/ \E r \in PositionResponses :
            /\ pos' = Recorded(r)
            /\ calls' = Append(calls,
                    Call("futures_position_information", kw, TRUE,
                         Recorded(r)))
            /\ IF HasOpenPosition(r)
               THEN /\ Return("False", <<"existing_position">>, 0)
                    /\ UNCHANGED <<attempt, delay>>
               ELSE /\ Continue("leverage", <<>>, 0)
                    /\ attempt' = 0
                    /\ delay' = DefaultDelay
       \/ /\ faults < MaxFaults
          /\ calls' = Append(calls,
                  Call("futures_position_information", kw, FALSE, Raised))
          /\ Handler(<<>>, 1)
          /\ UNCHANGED <<pos, attempt, delay>>
    /\ UNCHANGED <<cfg, args, loc, polls, orders, sleeps, tp_orders, tasks,
                   nextId, rt, mon, ws>>

\* Where place_trade is while the _retry it awaits sleeps at line 82.
Asleep ==
    ("leverage" :> "leverage_sleep") @@ ("entry" :> "entry_sleep") @@
    ("tp" :> "tp_sleep") @@ ("sl" :> "sl_sleep")

\* The call _retry repeats after the sleep.
Awake ==
    ("leverage_sleep" :> "leverage") @@ ("entry_sleep" :> "entry") @@
    ("tp_sleep" :> "tp") @@ ("sl_sleep" :> "sl")

\* A pass of _retry's loop in which func raised (lines 78-82), inside
\* place_trade's try: log, then re-raise on the last pass, and otherwise
\* await asyncio.sleep(delay).
RetryRaised(op, kw) ==
    /\ faults < MaxFaults
    /\ calls' = Append(calls, Call(op, kw, FALSE, Raised))
    /\ IF RetryOutcome(attempt, DefaultRetries, FALSE) = "raise"
       THEN /\ Handler(<<"retry_failed">>, 1)
            /\ UNCHANGED sleeps
       ELSE /\ Continue(Asleep[pc], <<"retry_failed">>, 1)
            /\ sleeps' = Append(sleeps, delay)
    /\ UNCHANGED <<cfg, args, loc, attempt, delay, polls, pos, orders,
                   tp_orders, tasks, nextId, rt, mon, ws>>

\* Line 83 and the loop's next index, once the sleep of line 82 is over:
\* delay *= 2, and func is awaited again.
RetryWake ==
    /\ pc \in DOMAIN Awake
    /\ Continue(Awake[pc], <<>>, 0)
    /\ delay' = NextDelay(delay)
    /\ attempt' = attempt + 1
    /\ UNCHANGED <<cfg, args, loc, polls, pos, orders, calls, sleeps,
                   tp_orders, tasks, nextId, rt, mon, ws>>

\* Line 151: _retry(futures_change_leverage).
Leverage ==
    /\ pc = "leverage"
    /\ LET kw == [symbol |-> args.symbol, leverage |-> loc.lev] IN
       \/ /\ calls' = Append(calls,
                  Call("futures_change_leverage", kw, TRUE, [ok |-> TRUE]))
          /\ Continue("entry", <<>>, 0)
          /\ attempt' = 0
          /\ delay' = DefaultDelay
          /\ UNCHANGED <<cfg, args, loc, polls, pos, orders, sleeps,
                         tp_orders, tasks, nextId, rt, mon, ws>>
       \/ RetryRaised("futures_change_leverage", kw)

\* Lines 152-160: _retry(futures_create_order) for the entry.
Entry ==
    /\ pc = "entry"
    /\ \/ /\ calls' = Append(calls,
                  Call("futures_create_order", EntryOrder, TRUE,
                       [orderId |-> nextId]))
          /\ orders' = [orders EXCEPT !.entry = nextId]
          /\ nextId' = nextId + 1
          /\ Continue("status", <<>>, 0)
          /\ attempt' = 0
          /\ delay' = 0
          /\ UNCHANGED <<cfg, args, loc, polls, pos, sleeps, tp_orders,
                         tasks, rt, mon, ws>>
       \/ RetryRaised("futures_create_order", EntryOrder)

\* Lines 163-169: the fill poll, one futures_get_order per pass; a pass that
\* sees no fill ends in await asyncio.sleep(1).
Status ==
    /\ pc = "status"
    /\ polls < FillPolls
    /\ LET kw == [symbol |-> args.symbol, orderId |-> orders.entry] IN
       \/ \E info \in OrderInfos :
            /\ calls' = Append(calls, Call("futures_get_order", kw, TRUE, info))
            /\ polls' = polls + 1
            /\ IF EntryFilled(info)
               THEN /\ Continue("tp", <<>>, 0)
                    /\ attempt' = 0
                    /\ delay' = DefaultDelay
                    /\ UNCHANGED sleeps
               ELSE /\ sleeps' = Append(sleeps, PollSleep)
                    /\ UNCHANGED <<attempt, delay>>
                    /\ Continue("status", <<>>, 0)
       \/ /\ faults < MaxFaults
          /\ calls' = Append(calls, Call("futures_get_order", kw, FALSE, Raised))
          /\ polls' = polls + 1
          /\ Handler(<<>>, 1)
          /\ UNCHANGED <<attempt, delay, sleeps>>
    /\ UNCHANGED <<cfg, args, loc, pos, orders, tp_orders, tasks, nextId, rt, mon, ws>>

\* Lines 170-172: the sleep of the last pass is over and range(5) is used
\* up with filled still False: log and return False.
NotFilled ==
    /\ pc = "status"
    /\ polls = FillPolls
    /\ Return("False", <<"entry_not_filled">>, 0)
    /\ UNCHANGED <<cfg, args, loc, attempt, delay, polls, pos, orders, calls,
                   sleeps, tp_orders, tasks, nextId, rt, mon, ws>>

\* Lines 174-206: _retry(futures_create_order) for the take-profit, then
\* ws_manager.register_tp_order when there is a ws_manager; a registration
\* that raises is logged as a warning and the call goes on.
TakeProfit ==
    /\ pc = "tp"
    /\ \/ /\ calls' = Append(calls,
                  Call("futures_create_order", TpOrder, TRUE,
                       [orderId |-> nextId]))
          /\ orders' = [orders EXCEPT !.tp = nextId]
          /\ nextId' = nextId + 1
          /\ \/ /\ tp_orders' = IF cfg.ws_manager
                                THEN (args.symbol :> nextId) @@ tp_orders
                                ELSE tp_orders
                /\ Continue("sl", <<>>, 0)
             \/ /\ cfg.ws_manager
                /\ faults < MaxFaults
                /\ tp_orders' = tp_orders
                /\ Continue("sl", <<"register_failed">>, 1)
          /\ attempt' = 0
          /\ delay' = DefaultDelay
          /\ UNCHANGED <<cfg, args, loc, polls, pos, sleeps, tasks, rt, mon, ws>>
       \/ RetryRaised("futures_create_order", TpOrder)

\* Lines 208-236: _retry(futures_create_order) for the stop-loss, the
\* monitor task, the trade-log row, return True.  log_trade is inside the
\* try: when it raises, the except clause runs.
StopLoss ==
    /\ pc = "sl"
    /\ \/ /\ calls' = Append(calls,
                  Call("futures_create_order", SlOrder, TRUE,
                       [orderId |-> nextId]))
          /\ orders' = [orders EXCEPT !.sl = nextId]
          /\ nextId' = nextId + 1
          /\ tasks' = IF cfg.USE_TRAILING_STOP
                      THEN Append(tasks, MonitorTask(nextId))
                      ELSE tasks
          /\ IF cfg.sheet
             THEN \/ /\ pc' = "done"
                     /\ result' = "True"
                     /\ sheet_rows' = Append(sheet_rows, Row("FILLED"))
                     /\ UNCHANGED <<logged, faults>>
                  \/ /\ faults < MaxFaults
                     /\ Handler(<<>>, 1)
             ELSE Return("True", <<>>, 0)
          /\ UNCHANGED <<cfg, args, loc, attempt, delay, polls, pos, sleeps,
                         tp_orders, rt, mon, ws>>
       \/ RetryRaised("futures_create_order", SlOrder)

Next ==
    \/ \E symbol \in Symbols, side \in Sides :
         \E pa \in PriceAtr(symbol) : Start(symbol, side, pa[1], pa[2])
    \/ PositionQuery
    \/ Leverage
    \/ Entry
    \/ Status
    \/ NotFilled
    \/ TakeProfit
    \/ StopLoss
    \/ RetryWake

Spec == Init /\ [][Next]_vars

(***************************************************************************)
(* OrderManager._retry on its own (lines 73-83): called with any retries   *)
(* and delay its signature accepts (the callers in place_trade use the     *)
(* defaults 3 and 1.0), around a func that raises or returns as the        *)
(* environment decides.                                                    *)
(***************************************************************************)
\* _retry(func, retries=retries, delay=d) is called.  range(retries) is empty
\* for retries <= 0: the loop body never runs and the function returns None.
RetryCall(retries, d) ==
    /\ rt.state = "idle"
    /\ rt' = [rt EXCEPT !.retries = retries, !.delay0 = d, !.delay = d,
                        !.state = IF retries <= 0 THEN "returned" ELSE "running"]
    /\ UNCHANGED <<pipeVars, mon, ws>>

\* One pass of the loop, lines 75-82: func is awaited and returns v (ok) or
\* raises; after a failure that is not re-raised, await asyncio.sleep(delay).
RetryPass(ok, v) ==
    /\ rt.state = "running"
    /\ LET out == RetryOutcome(rt.attempt, rt.retries, ok)
           n   == rt.invoked + 1
           r   == [rt EXCEPT !.invoked = n,
                             !.failed = IF ok THEN @ ELSE @ + 1,
                             !.succeeded = ok,
                             !.produced = IF ok THEN v ELSE 0]
       IN  rt' =
             IF out = "return"
             THEN [r EXCEPT !.state = "returned", !.value = r.produced]
             ELSE IF out = "raise"
             THEN [r EXCEPT !.state = "raised", !.error = n]
             ELSE [r EXCEPT !.sleeps = Append(@, rt.delay),
                            !.state = "sleeping"]
    /\ UNCHANGED <<pipeVars, mon, ws>>

\* Line 83 and the loop's next index, once the sleep is over: delay *= 2,
\* then the next pass, or the end of the loop and of the function (None).
RetrySlept ==
    /\ rt.state = "sleeping"
    /\ rt' = [rt EXCEPT !.delay = NextDelay(rt.delay),
                        !.attempt = @ + 1,
                        !.state = IF rt.attempt + 1 < rt.retries
                                  THEN "running" ELSE "returned"]
    /\ UNCHANGED <<pipeVars, mon, ws>>

RetryInit ==
    /\ cfg = Shipped
    /\ PipeInit
    /\ rt = RtIdle
    /\ mon = MonIdle
    /\ ws = WsIdle

RetryNext ==
    \/ \E retries \in -1 .. MaxRetries, d \in 0 .. MaxDelay : RetryCall(retries, d)
    \/ \E ok \in BOOLEAN, v \in 1 .. MaxValue : RetryPass(ok, v)
    \/ RetrySlept

SpecRetry == RetryInit /\ [][RetryNext]_vars

(***************************************************************************)
(* monitor_and_switch_to_trailing (lines 244-349) on its own: one task,     *)
(* created with the arguments place_trade passes, polling a price the       *)
(* environment chooses.  entry_price is the rounded entry in whole price    *)
(* steps, atr is in half price steps, polled prices are in whole price      *)
(* steps; the thresholds and the polled price as the task compares them are *)
(* the doubles the code computes.                                           *)
(***************************************************************************)
\* config.py: BREAK_EVEN_ACTIVATION_MULTIPLIER = 0.5, in tenths.
BREAK_EVEN_ACTIVATION_MULTIPLIER_X10 == 5

\* config.py: TRAILING_ACTIVATION_MULTIPLIER = 1.0, in tenths.
TRAILING_ACTIVATION_MULTIPLIER_X10 == 10

\* config.py: TRAILING_CALLBACK = 0.5 (percent), in tenths.
TRAILING_CALLBACK_X10 == 5

\* asyncio.sleep(2) between polls.
MonitorSleep == 2

\* Ticker queries one task makes before the model stops following it.
MaxTicks == 4

\* Entry price of the tasks followed on round numbers, in price steps of
\* BTCUSDT: 100.0
MonEntry == 1000

\* Their atr values, in half price steps: 0.0, 0.05 (a quarter of a step to
\* the break-even threshold) and 10.0
MonAtrs == {0, 1, 200}

\* The order id place_trade got for the stop-loss (entry 1, take-profit 2).
MonSlOrderId == 3

\* Two tasks whose thresholds are multiples of the price step that the float
\* sums miss: long from 65000.3 with atr 200.8 (65100.7 and 65201.1 come out
\* as 65100.700000000004 and 65201.100000000006), short from 65536.4 with
\* atr 200.0 (65436.4 and 65336.4 come out as 65436.399999999994 and
\* 65336.399999999994).
MonFloatTasks ==
    {[sym |-> "BTCUSDT", entry_price |-> Px(650003, 0), atr |-> 4016,
      sl_order_id |-> MonSlOrderId, side |-> "BUY"],
     [sym |-> "BTCUSDT", entry_price |-> Px(655364, 0), atr |-> 4000,
      sl_order_id |-> MonSlOrderId, side |-> "SELL"]}

\* The tasks followed, as MonitorTask builds them.
MonTasks ==
    {[sym |-> "BTCUSDT", entry_price |-> Px(MonEntry, 0), atr |-> a,
      sl_order_id |-> MonSlOrderId, side |-> sd] : a \in MonAtrs, sd \in Sides}
    \cup MonFloatTasks

\* The distance between the prices the ticker reports to task t, in price
\* steps: 1.0 when the atr is a multiple of 2.0, one price step otherwise.
Grain(t) ==
    IF t.atr % (4 * PrecisionOf(t.sym).priceDen) = 0
    THEN PrecisionOf(t.sym).priceDen
    ELSE 1

\* Prices the ticker may report to task t, in whole price steps, as distances
\* from the entry in the trade's favour: 4 grains against it, at it, a grain
\* short of the break-even threshold, at it, a grain past it, at the trailing
\* threshold and two grains past it (thresholds cut to whole steps).
MarkPrices(t) ==
    LET be == t.atr \div 4
        tr == t.atr \div 2
        g  == Grain(t)
    IN  {IF t.side = "BUY" THEN t.entry_price[1] + d ELSE t.entry_price[1] - d :
            d \in {-4 * g, 0, be - g, be, be + g, tr, tr + 2 * g}}

\* The float of entry_price (a rounded price, float(Decimal) of whole steps).
EntryFloat(t) == FOfRat(t.entry_price[1], PrecisionOf(t.sym).priceDen)

\* The float of atr, as place_trade received it.
AtrFloat(t) == PriceArg(t.sym, t.atr)

\* config.py: BREAK_EVEN_ACTIVATION_MULTIPLIER = 0.5
BREAK_EVEN_ACTIVATION_MULTIPLIER ==
    FOfRat(BREAK_EVEN_ACTIVATION_MULTIPLIER_X10, 10)

\* config.py: TRAILING_ACTIVATION_MULTIPLIER = 1.0
TRAILING_ACTIVATION_MULTIPLIER ==
    FOfRat(TRAILING_ACTIVATION_MULTIPLIER_X10, 10)

\* lines 262/266: entry_price +/- atr * BREAK_EVEN_ACTIVATION_MULTIPLIER, a
\* float.
be_activation_price(t) ==
    LET d == FMul(AtrFloat(t), BREAK_EVEN_ACTIVATION_MULTIPLIER)
    IN  IF t.side = "BUY" THEN FAdd(EntryFloat(t), d) ELSE FSub(EntryFloat(t), d)

\* lines 263/267: entry_price +/- atr * TRAILING_ACTIVATION_MULTIPLIER, a
\* float.
trailing_activation_price(t) ==
    LET d == FMul(AtrFloat(t), TRAILING_ACTIVATION_MULTIPLIER)
    IN  IF t.side = "BUY" THEN FAdd(EntryFloat(t), d) ELSE FSub(EntryFloat(t), d)

\* Mutant: the replacement stops are placed on the side of the entry.
trailing_side_Entry(t) == t.side

\* lines 264/268
trailing_side(t) == IF t.side = "BUY" THEN "SELL" ELSE "BUY"

\* line 276: mark_price = float(ticker["price"]), for each answer of the
\* ticker in whole price steps of BTCUSDT, the symbol of the tasks followed.
mark_price ==
    [m \in UNION {MarkPrices(t) : t \in MonTasks} |->
        FOfRat(m, PrecisionOf("BTCUSDT").priceDen)]

\* lines 284-285 and 321-322: mark_price >= threshold on a long trade,
\* mark_price <= threshold on a short one, both floats.
Reached(side, x, th) ==
    IF side = "BUY" THEN FCmp(x, th) >= 0 ELSE FCmp(x, th) <= 0

\* lines 299-307: the break-even stop's keyword arguments.
BreakEvenOrder(t) ==
    [symbol |-> t.sym, side |-> trailing_side(t), type |-> "STOP_MARKET",
     stopPrice |-> t.entry_price, reduceOnly |-> TRUE,
     closePosition |-> TRUE, timeInForce |-> "GTC"]

\* lines 334-343: the trailing stop's keyword arguments.
TrailingOrder(t) ==
    [symbol |-> t.sym, side |-> trailing_side(t),
     type |-> "TRAILING_STOP_MARKET",
     activationPrice |-> t.trailing_activation_price,
     callbackRate |-> TRAILING_CALLBACK_X10, reduceOnly |-> TRUE,
     closePosition |-> TRUE, timeInForce |-> "GTC"]

\* The task as asyncio.create_task starts it, lines 260-271: the thresholds
\* are computed once, break_even_set is False.
MonStart(t) ==
    [MonIdle EXCEPT !.pc = "poll", !.sym = t.sym,
                    !.entry_price = t.entry_price, !.atr = t.atr,
                    !.side = t.side, !.sl_order_id = t.sl_order_id,
                    !.be_activation_price = be_activation_price(t),
                    !.trailing_activation_price = trailing_activation_price(t),
                    !.nextId = t.sl_order_id + 1]

\* lines 283-286, 320-323, 349: where the loop body goes with mark price m.
\* Step 1 is tested first and ends its pass with `continue`.
AfterTick(t, m) ==
    IF ~t.break_even_set /\ Reached(t.side, mark_price[m], t.be_activation_price)
    THEN "be_cancel"
    ELSE IF Reached(t.side, mark_price[m], t.trailing_activation_price)
    THEN "tr_cancel"
    ELSE "poll"

\* Mutant: a break-even stop that could not be placed is only logged and the
\* loop goes on.
AfterBreakEvenFailure_GoOn == "poll"

\* lines 313-315: a failed break-even placement breaks out of the loop.
AfterBreakEvenFailure == "ended"

\* Mutant: a failed price query ends the task.
AfterTickFailure_Ends == "ended"

\* lines 277-280: a failed price query is logged, then sleep and `continue`.
AfterTickFailure == "poll"

\* Mutant: the id of the break-even stop is not kept; the task goes on
\* tracking the stop it was started with.
TrackedStop_Unchanged(t, newId) == t.sl_order_id

\* line 308: sl_order_id = new_sl["orderId"]
TrackedStop(t, newId) == newId

\* line 347: break, whether the trailing stop was accepted or refused.
AfterTrailing == "ended"

\* The task issues Gateway call c during its pass number Len(ticks).
MonCall(c) ==
    [mon EXCEPT !.calls = Append(@, c), !.at = Append(@, Len(mon.ticks))]

\* Lines 274-280 and the tests of lines 283 and 320: one ticker_price query.
\* When it raises (or its answer has no usable price) the task sleeps and
\* polls again; otherwise the pass goes on with the price.
MonTick ==
    /\ mon.pc = "poll"
    /\ Len(mon.ticks) < MaxTicks
    /\ \/ mon' = [mon EXCEPT !.ticks = Append(@, -1), !.sleeps = @ + 1,
                             !.pc = AfterTickFailure]
       \/ \E m \in MarkPrices(mon) :
            LET next == AfterTick(mon, m) IN
            mon' = [mon EXCEPT !.ticks = Append(@, m),
                               !.mark_price = m,
                               !.pc = next,
                               !.sleeps = IF next = "poll" THEN @ + 1 ELSE @]
    /\ UNCHANGED <<pipeVars, rt, ws>>

\* Lines 287-294: cancel the current stop before the break-even stop.
MonBreakEvenCancel ==
    /\ mon.pc = "be_cancel"
    /\ LET kw == [symbol |-> mon.sym, orderId |-> mon.sl_order_id] IN
       \/ mon' = [MonCall(Call("futures_cancel_order", kw, TRUE, [ok |-> TRUE]))
                     EXCEPT !.pc = "be_create"]
       \/ mon' = [MonCall(Call("futures_cancel_order", kw, FALSE, Raised))
                     EXCEPT !.pc = "ended"]
    /\ UNCHANGED <<pipeVars, rt, ws>>

\* Lines 297-317: place the stop at the entry price, track its id, sleep.
MonBreakEvenCreate ==
    /\ mon.pc = "be_create"
    /\ \/ mon' = [MonCall(Call("futures_create_order", BreakEvenOrder(mon),
                               TRUE, [orderId |-> mon.nextId]))
                     EXCEPT !.sl_order_id = TrackedStop(mon, mon.nextId),
                            !.nextId = @ + 1,
                            !.break_even_set = TRUE,
                            !.sleeps = @ + 1,
                            !.pc = "poll"]
       \/ mon' = [MonCall(Call("futures_create_order", BreakEvenOrder(mon),
                               FALSE, Raised))
                     EXCEPT !.pc = AfterBreakEvenFailure,
                            !.sleeps = IF AfterBreakEvenFailure = "poll"
                                       THEN @ + 1 ELSE @]
    /\ UNCHANGED <<pipeVars, rt, ws>>

\* Lines 324-331: cancel the current stop before the trailing stop.
MonTrailingCancel ==
    /\ mon.pc = "tr_cancel"
    /\ LET kw == [symbol |-> mon.sym, orderId |-> mon.sl_order_id] IN
       \/ mon' = [MonCall(Call("futures_cancel_order", kw, TRUE, [ok |-> TRUE]))
                     EXCEPT !.pc = "tr_create"]
       \/ mon' = [MonCall(Call("futures_cancel_order", kw, FALSE, Raised))
                     EXCEPT !.pc = "ended"]
    /\ UNCHANGED <<pipeVars, rt, ws>>

\* Lines 333-347: place the trailing stop; the loop ends either way.
MonTrailingCreate ==
    /\ mon.pc = "tr_create"
    /\ \/ mon' = [MonCall(Call("futures_create_order", TrailingOrder(mon),
                               TRUE, [orderId |-> mon.nextId]))
                     EXCEPT !.nextId = @ + 1, !.pc = AfterTrailing]
       \/ mon' = [MonCall(Call("futures_create_order", TrailingOrder(mon),
                               FALSE, Raised))
                     EXCEPT !.pc = AfterTrailing]
    /\ UNCHANGED <<pipeVars, rt, ws>>

\* The exchange closes the trade's position (its take-profit or its current
\* stop fills) while the task is suspended: asleep or awaiting the ticker
\* (lines 275, 279, 316 and 349), a cancel (lines 287 and 324) or a create
\* (lines 297 and 334).  Nothing in the loop reads the position: the task's
\* own state is as before.
MonPositionClosed ==
    /\ mon.pc \in {"poll", "be_cancel", "be_create", "tr_cancel", "tr_create"}
    /\ mon.closed_at = -1
    /\ mon' = [mon EXCEPT !.closed_at = Len(mon.calls)]
    /\ UNCHANGED <<pipeVars, rt, ws>>

MonitorInit ==
    /\ cfg = Shipped
    /\ PipeInit
    /\ rt = RtIdle
    /\ ws = WsIdle
    /\ \E t \in MonTasks : mon = MonStart(t)

\* The steps of the task itself.
MonTaskNext ==
    \/ MonTick
    \/ MonBreakEvenCancel
    \/ MonBreakEvenCreate
    \/ MonTrailingCancel
    \/ MonTrailingCreate

MonitorNext ==
    \/ MonTaskNext
    \/ MonPositionClosed

SpecMonitor == MonitorInit /\ [][MonitorNext]_vars

\* The event loop resumes the task whenever the call or the sleep it awaits
\* has returned, and every awaited call returns or raises: the task's next
\* step is taken once it stays possible.
SpecMonitorFair == SpecMonitor /\ WF_vars(MonTaskNext)

(***************************************************************************)
(* BinanceWSManager (ws_manager.py): _handle_event consuming the events     *)
(* _listen hands it one after the other, and register_tp_order called by a  *)
(* place_trade that may run while a cancel is awaited.  The registry is     *)
(* tp_orders; the cancel calls go to `calls`.                               *)
(***************************************************************************)
\* Registrations and events followed before the model stops.
MaxEvents == 3

WsSymbols == {"BTCUSDT", "ETHUSDT"}

\* Take-profit order ids a place_trade may register.
RegIds == {42, 43}

\* The events: data["e"], and data["o"]'s "s", "o" and "X"; "None" where the
\* key is missing (an event without "o" has none of the three).
WsEvents ==
    [e : {"ORDER_TRADE_UPDATE", "ACCOUNT_UPDATE"}, s : WsSymbols,
     o : {"TRAILING_STOP_MARKET", "STOP_MARKET"}, X : {"FILLED", "NEW"}]
    \cup {[e |-> "ORDER_TRADE_UPDATE", s |-> "None", o |-> "None",
           X |-> "None"]}

\* Mutant: the status of the order is not looked at.
Consumes_AnyStatus(data) ==
    data.e = "ORDER_TRADE_UPDATE" /\ data.o = "TRAILING_STOP_MARKET"

\* lines 30 and 38: an order update of a filled trailing stop.
Consumes(data) ==
    /\ data.e = "ORDER_TRADE_UPDATE"
    /\ data.o = "TRAILING_STOP_MARKET"
    /\ data.X = "FILLED"

\* del d[k]
Remove(d, k) == [x \in (DOMAIN d) \ {k} |-> d[x]]

\* Mutant: the entry is deleted only when the cancel went through.
AfterCancel_KeepOnFailure(reg, symbol, ok) ==
    IF ok THEN Remove(reg, symbol) ELSE reg

\* lines 46-47: finally: del self.tp_orders[symbol]
AfterCancel(reg, symbol, ok) == Remove(reg, symbol)

\* An entry of the history: a registration, or a handled event with the
\* registry when the handler started (before), just before its own write
\* (pre) and after it (after), and the cancel calls it issued.
WsEntry(kind, data, id, cancels, ok, before, pre, after) ==
    [kind |-> kind, data |-> data, id |-> id, cancels |-> cancels,
     ok |-> ok, before |-> before, pre |-> pre, after |-> after]

\* ws_manager.py lines 49-50, called from place_trade line 204.
WsRegister(symbol, id) ==
    /\ Len(ws.log) < MaxEvents
    /\ tp_orders' = (symbol :> id) @@ tp_orders
    /\ ws' = [ws EXCEPT !.log = Append(@,
                  WsEntry("register",
                          [e |-> "", s |-> symbol, o |-> "", X |-> ""],
                          id, 0, TRUE, tp_orders, tp_orders, tp_orders'))]
    /\ UNCHANGED <<cfg, pc, args, loc, attempt, delay, polls, pos, orders,
                   calls, sleeps, tasks, sheet_rows, result, logged, faults,
                   nextId, rt, mon>>

\* Lines 29-42: an event arrives.  Anything but a filled trailing stop of a
\* registered symbol returns at once; otherwise the cancel call is issued
\* and awaited.
WsEvent(data) ==
    /\ ws.pc = "idle"
    /\ Len(ws.log) < MaxEvents
    /\ IF Consumes(data) /\ data.s \in DOMAIN tp_orders
       THEN \E ok \in BOOLEAN :
              /\ calls' = Append(calls,
                      Call("futures_cancel_order",
                           [symbol |-> data.s, orderId |-> tp_orders[data.s]],
                           ok, IF ok THEN [ok |-> TRUE] ELSE Raised))
              /\ ws' = [ws EXCEPT !.pc = "cancelling", !.event = data,
                                  !.tp_id = tp_orders[data.s],
                                  !.cancel_ok = ok, !.before = tp_orders]
       ELSE /\ ws' = [ws EXCEPT !.log = Append(@,
                         WsEntry("event", data, 0, 0, TRUE, tp_orders,
                                 tp_orders, tp_orders))]
            /\ UNCHANGED calls
    /\ UNCHANGED <<cfg, pc, args, loc, attempt, delay, polls, pos, orders,
                   sleeps, tp_orders, tasks, sheet_rows, result, logged,
                   faults, nextId, rt, mon>>

\* Lines 43-47: the cancel returned (info message of line 43) or raised
\* (warning of line 45); the entry is deleted.
WsCancelDone ==
    /\ ws.pc = "cancelling"
    /\ tp_orders' = AfterCancel(tp_orders, ws.event.s, ws.cancel_ok)
    /\ logged' = Append(logged, IF ws.cancel_ok THEN "tp_canceled"
                                 ELSE "cancel_tp_failed")
    /\ ws' = [ws EXCEPT !.pc = "idle", !.event = <<>>, !.tp_id = 0,
                        !.cancel_ok = TRUE, !.before = <<>>,
                        !.log = Append(@,
                            WsEntry("event", ws.event, ws.tp_id, 1,
                                    ws.cancel_ok, ws.before, tp_orders,
                                    tp_orders'))]
    /\ UNCHANGED <<cfg, pc, args, loc, attempt, delay, polls, pos, orders,
                   calls, sleeps, tasks, sheet_rows, result, faults, nextId,
                   rt, mon>>

ReconcilerInit ==
    /\ cfg = Shipped
    /\ PipeInit
    /\ rt = RtIdle
    /\ mon = MonIdle
    /\ ws = WsIdle

ReconcilerNext ==
    \/ \E symbol \in WsSymbols, id \in RegIds : WsRegister(symbol, id)
    \/ \E data \in WsEvents : WsEvent(data)
    \/ WsCancelDone

SpecReconciler == ReconcilerInit /\ [][ReconcilerNext]_vars

(***************************************************************************)
(* Properties.                                                             *)
(***************************************************************************)
IsCreate(c) == c.op = "futures_create_order"

\* The call's messages include one of kind k.
Logged(k) == \E i \in DOMAIN logged : logged[i] = k

\* C1: whenever the position query reports a non-zero position amount,
\* place_trade returns False and no order-creation call (entry, take-profit,
\* stop-loss) is ever made, for every symbol and side.
C1_DuplicateEntryGuard ==
    (pos.seen /\ pos.isList /\ \E i \in DOMAIN pos.amts : pos.amts[i] # 0)
        => /\ pc = "done"
           /\ result = "False"
           /\ \A i \in DOMAIN calls : ~IsCreate(calls[i])

\* A short position reported second in the list stops the trade.
C1_Witness ==
    /\ pos.seen /\ pos.isList /\ pos.amts = <<0, -1>>
    /\ result = "False"
    /\ Logged("existing_position")

\* The doubles of the rounded entry prices of the trades, by symbol and
\* whole price steps.
RoundedEntries ==
    [sym \in Symbols \cap DOMAIN LEVERAGE_MAP |->
        [p \in {RoundedPrice(sym, pa[1]) : pa \in PriceAtr(sym)} |->
            PriceFloat(sym, p)]]

\* The rounded entry price of the trade, as a double.
RoundedEntry == RoundedEntries[args.symbol][loc.price[1]]

\* The double x is strictly below the double y.
Below(x, y) == FCmp(x, y) < 0

\* A protective price on the wrong side of, or equal to, the entry.
WrongSide(side, l) ==
    IF side = "BUY"
    THEN ~Below(l.sl, RoundedEntry) \/ ~Below(RoundedEntry, l.tp)
    ELSE ~Below(RoundedEntry, l.sl) \/ ~Below(l.tp, RoundedEntry)

\* C2: a validation rejection (notional below the minimum, or stop-loss /
\* take-profit on the wrong side of the entry after rounding and buffering)
\* returns False with no Gateway call of any kind made; and every call whose
\* notional is below the minimum, or whose protective prices are on the wrong
\* side, is so rejected.
C2_ValidationRejectsWithoutCalls ==
    /\ (Logged("notional_below_min") \/ Logged("sltp_invalid"))
         => (pc = "done" /\ result = "False" /\ calls = <<>>)
    /\ ( /\ pc # "idle"
         /\ args.symbol \in DOMAIN LEVERAGE_MAP
         /\ args.price # 0
         /\ MARGIN_PER_TRADE * LEVERAGE_MAP[args.symbol] < cfg.MIN_NOTIONAL )
         => (result = "False" /\ calls = <<>>)
    /\ (pc # "idle" /\ loc # NoLocals /\ WrongSide(args.side, loc))
         => (result = "False" /\ calls = <<>>)

\* A trade below the configured minimum notional was rejected.
C2_Witness ==
    /\ pc = "done" /\ result = "False"
    /\ logged = <<"notional_below_min">>
    /\ calls = <<>>

\* A trade whose stop-loss equals the entry after rounding was rejected.
C2_WitnessSlTp ==
    /\ pc = "done" /\ result = "False"
    /\ logged = <<"rounded", "sltp_invalid">>
    /\ loc.sl = RoundedEntry
    /\ calls = <<>>

\* C3: every stop-loss submitted is strictly below the rounded entry price on
\* a BUY and strictly above it on a SELL, and every take-profit submitted is
\* strictly above it on a BUY and strictly below it on a SELL, after rounding
\* and after the 0.1% buffer.
C3_ProtectivePricesStraddleEntry ==
    \A i \in DOMAIN calls :
        LET c == calls[i] IN
        IsCreate(c) =>
            /\ c.kw.type = "STOP_MARKET" =>
                 IF args.side = "BUY"
                 THEN Below(c.kw.stopPrice, RoundedEntry)
                 ELSE Below(RoundedEntry, c.kw.stopPrice)
            /\ c.kw.type = "TAKE_PROFIT_MARKET" =>
                 IF args.side = "BUY"
                 THEN Below(RoundedEntry, c.kw.stopPrice)
                 ELSE Below(c.kw.stopPrice, RoundedEntry)
            /\ (c.kw.type = "LIMIT" /\ "reduceOnly" \in DOMAIN c.kw) =>
                 IF args.side = "BUY"
                 THEN Below(RoundedEntry, c.kw.price)
                 ELSE Below(c.kw.price, RoundedEntry)

\* A BUY with atr 0, whose stop-loss only the buffer moved below the entry,
\* was submitted with its take-profit.
C3_Witness ==
    /\ args.side = "BUY" /\ args.atr = 0
    /\ \E i, j \in DOMAIN calls :
         /\ IsCreate(calls[i]) /\ calls[i].kw.type = "STOP_MARKET"
         /\ Below(calls[i].kw.stopPrice, RoundedEntry)
         /\ IsCreate(calls[j]) /\ calls[j].kw.type = "TAKE_PROFIT_MARKET"
         /\ Below(RoundedEntry, calls[j].kw.stopPrice)

\* The calls that returned, without the status polls that did not end the
\* wait (a dict whose status is not FILLED).
Effective ==
    SelectSeq(calls,
        LAMBDA c : c.ok /\ (c.op = "futures_get_order"
                              => (~c.resp.isDict \/ c.resp.status = "FILLED")))

\* The position query returned and reported no open position.
NoOpenPositionSeen ==
    pos.seen /\ \A i \in DOMAIN pos.amts : pos.amts[i] = 0

\* Some status poll returned a dict whose status is FILLED.
FillReported ==
    \E i \in DOMAIN calls :
        /\ calls[i].op = "futures_get_order" /\ calls[i].ok
        /\ calls[i].resp.isDict /\ calls[i].resp.status = "FILLED"

\* The calls that returned are, in this order: the position query, the
\* leverage change, the entry order, the status poll that ended the wait, the
\* take-profit order, the stop-loss order.
FullPipeline ==
    LET e == Effective IN
    /\ Len(e) = 6
    /\ e[1].op = "futures_position_information"
    /\ e[2].op = "futures_change_leverage"
    /\ e[2].kw = [symbol |-> args.symbol, leverage |-> LEVERAGE_MAP[args.symbol]]
    /\ IsCreate(e[3]) /\ e[3].kw = EntryOrder
    /\ e[4].op = "futures_get_order" /\ e[4].kw.orderId = e[3].resp.orderId
    /\ IsCreate(e[5]) /\ e[5].kw = TpOrder
    /\ IsCreate(e[6]) /\ e[6].kw = SlOrder

\* C4: when validation passes, no position is open and every Gateway call
\* succeeds (each returns, and the status poll reports the fill), place_trade
\* returns True having submitted exactly one entry order, then one
\* take-profit order, then one stop-loss order, the leverage change coming
\* before the entry order.
C4_AllCallsSucceedReturnsTrue ==
    ( /\ pc = "done"
      /\ calls # <<>>
      /\ NoOpenPositionSeen
      /\ \A i \in DOMAIN calls : calls[i].ok
      /\ FillReported )
      => /\ result = "True"
         /\ Len(calls) = 6
         /\ FullPipeline

\* C5: a take-profit or stop-loss order is submitted only after a status
\* query for the entry order reported FILLED; at most 5 status queries are
\* made; and when none of them reports a fill the call returns False with no
\* take-profit, no stop-loss and no cancel submitted.
C5_FillConfirmedBeforeProtection ==
    /\ \A i \in DOMAIN calls :
         (IsCreate(calls[i]) /\ calls[i].kw.side = Opposite(args.side))
           => \E j \in 1 .. (i - 1) :
                /\ calls[j].op = "futures_get_order" /\ calls[j].ok
                /\ calls[j].resp.isDict /\ calls[j].resp.status = "FILLED"
    /\ polls <= FillPolls
    /\ (pc = "done" /\ polls > 0 /\ ~FillReported)
         => /\ result = "False"
            /\ \A i \in DOMAIN calls :
                 /\ IsCreate(calls[i]) => calls[i].kw.side = args.side
                 /\ calls[i].op # "futures_cancel_order"

\* C6: place_trade never propagates a fault: whatever the symbol, price and
\* atr, and whichever Gateway call or trade-log write fails, the call ends by
\* returning a boolean.
C6_NeverRaises == pc = "done" => result \in {"True", "False"}

\* C7: True is returned only if validation passed, no position was
\* open, leverage was set, the entry was submitted and confirmed filled, the
\* take-profit was submitted and its id registered in the reconciler's
\* registry, and the stop-loss was submitted.
C7_TrueOnlyIfAllStepsAndRegistered ==
    result = "True"
      => /\ ~WrongSide(args.side, loc)
         /\ NoOpenPositionSeen
         /\ FullPipeline
         /\ FillReported
         /\ args.symbol \in DOMAIN tp_orders
         /\ tp_orders[args.symbol] = orders.tp

\* r is x / den rounded to a whole number toward zero.
IsRounded(r, x, den) ==
    /\ x >= 0 => (r >= 0 /\ r * den <= x /\ x < (r + 1) * den)
    /\ x <= 0 => (r <= 0 /\ x <= r * den /\ (r - 1) * den < x)

\* x / den rounded toward zero, found by search.
Rounding(x, den) ==
    CHOOSE r \in ((x \div den) - 1) .. ((x \div den) + 1) : IsRounded(r, x, den)

\* The trigger price of a protective order: stopPrice, or price on a limit
\* take-profit.
Trigger(kw) == IF "stopPrice" \in DOMAIN kw THEN kw.stopPrice ELSE kw.price

\* What C8 says of one submitted order, for a call with arguments a.  Prices
\* are in half price steps (a.price, a.atr), raw protective prices in 1/20
\* price steps, r and p in whole price steps; the buffer does not bind when r
\* is at least p / 1000 away from p on its own side.  A trigger price is the
\* double of its decimal.
SizedAsClaimed(a, c) ==
    LET prec == SYMBOL_PRECISION[a.symbol]
        k    == (2 * prec.priceDen * prec.qtyDen) \div prec.qtyNum
        n    == MARGIN_PER_TRADE * LEVERAGE_MAP[a.symbol] * k
        p    == Rounding(a.price, 2)
        slr  == Rounding(IF a.side = "BUY"
                         THEN 10 * a.price - SL_MULTIPLIER_X10 * a.atr
                         ELSE 10 * a.price + SL_MULTIPLIER_X10 * a.atr, 20)
        tpr  == Rounding(IF a.side = "BUY"
                         THEN 10 * a.price + TP_MULTIPLIER_X10 * a.atr
                         ELSE 10 * a.price - TP_MULTIPLIER_X10 * a.atr, 20)
        below(r) == 1000 * (p - r) >= p
        above(r) == 1000 * (r - p) >= p
    IN  /\ c.kw.side = a.side
          => /\ c.kw.quantity * a.price <= n
             /\ n < (c.kw.quantity + 1) * a.price
        /\ (c.kw.type = "STOP_MARKET"
              /\ (IF a.side = "BUY" THEN below(slr) ELSE above(slr)))
          => c.kw.stopPrice = StepFloat(slr, prec.priceDen)
        /\ (c.kw.side # a.side /\ c.kw.type # "STOP_MARKET"
              /\ (IF a.side = "BUY" THEN above(tpr) ELSE below(tpr)))
          => Trigger(c.kw) = StepFloat(tpr, prec.priceDen)

\* C8: where the separation buffer does not bind, the entry order's quantity
\* is (MARGIN_PER_TRADE x leverage) / price rounded down to the quantity
\* step, the stop-loss trigger is price -/+ SL_MULTIPLIER x atr and the
\* take-profit trigger price +/- TP_MULTIPLIER x atr, each rounded to the
\* price step; ETHUSDT SELL at 3000 with atr 50 gives quantity 0.333,
\* stop-loss 3050 and take-profit 2925.
C8_SizeAndPrices ==
    /\ \A i \in DOMAIN calls :
         IsCreate(calls[i]) => SizedAsClaimed(args, calls[i])
    /\ \A i \in DOMAIN calls :
         (IsCreate(calls[i]) /\ args.symbol = "ETHUSDT" /\ args.side = "SELL"
            /\ args.price = 600000 /\ args.atr = 10000)
           => /\ calls[i].kw.side = "SELL" => calls[i].kw.quantity = 333
              /\ calls[i].kw.type = "STOP_MARKET"
                   => calls[i].kw.stopPrice = StepFloat(305000, 100)
              /\ (calls[i].kw.side = "BUY" /\ calls[i].kw.type # "STOP_MARKET")
                   => Trigger(calls[i].kw) = StepFloat(292500, 100)

RECURSIVE Pow2(_)
\* 2^n, the backoff factor applied n times.
Pow2(n) == IF n <= 0 THEN 1 ELSE 2 * Pow2(n - 1)

\* What both readings of C9 share: a success after N failures is returned
\* with N+1 invocations and N sleeps, the k-th of initial delay x 2^(k-1)
\* seconds, and _retry does not give up while attempts remain.
RetrySuccessCounts ==
    /\ rt.succeeded
         => /\ rt.state = "returned"
            /\ rt.failed < rt.retries
            /\ rt.value = rt.produced /\ rt.value \in 1 .. MaxValue
            /\ rt.invoked = rt.failed + 1
            /\ Len(rt.sleeps) = rt.failed
            /\ \A k \in 1 .. rt.failed :
                 rt.sleeps[k] = rt.delay0 * Pow2(k - 1)
    /\ (rt.state \in {"raised", "returned"} /\ ~rt.succeeded)
         => rt.failed >= rt.retries

PastBE(p) ==
    /\ p # -1
    /\ IF mon.side = "BUY"
       THEN 4 * p >= 4 * mon.entry_price[1] + mon.atr
       ELSE 4 * p <= 4 * mon.entry_price[1] - mon.atr

\* Polled price p is at or past the trailing activation threshold.
PastTR(p) ==
    /\ p # -1
    /\ IF mon.side = "BUY"
       THEN 2 * p >= 2 * mon.entry_price[1] + mon.atr
       ELSE 2 * p <= 2 * mon.entry_price[1] - mon.atr

\* The trailing activation threshold of the task created with the arguments
\* t, in half price steps.
ThresholdTR(t) ==
    IF t.side = "BUY"
    THEN 2 * t.entry_price[1] + t.atr
    ELSE 2 * t.entry_price[1] - t.atr

\* The number an order carries when its activation price is that threshold,
\* for each of the tasks followed.
ActivationAtTR ==
    [t \in MonTasks |-> FOfRat(ThresholdTR(t), 2 * PrecisionOf(t.sym).priceDen)]

\* The arguments the task was created with.
MonArgs ==
    [sym |-> mon.sym, entry_price |-> mon.entry_price, atr |-> mon.atr,
     sl_order_id |-> MonSlOrderId, side |-> mon.side]

\* The first poll at or past break-even, 0 when there is none.
FirstBE ==
    IF \E i \in DOMAIN mon.ticks : PastBE(mon.ticks[i])
    THEN CHOOSE i \in DOMAIN mon.ticks :
            /\ PastBE(mon.ticks[i])
            /\ \A j \in 1 .. (i - 1) : ~PastBE(mon.ticks[j])
    ELSE 0

\* The first poll after FirstBE at or past the trailing threshold, or 0.
FirstTR ==
    IF FirstBE # 0
       /\ \E i \in (FirstBE + 1) .. Len(mon.ticks) : PastTR(mon.ticks[i])
    THEN CHOOSE i \in (FirstBE + 1) .. Len(mon.ticks) :
            /\ PastTR(mon.ticks[i])
            /\ \A j \in (FirstBE + 1) .. (i - 1) : ~PastTR(mon.ticks[j])
    ELSE 0

IsCancelOf(c, id) ==
    c.op = "futures_cancel_order" /\ c.kw.orderId = id /\ c.kw.symbol = mon.sym

IsStopAtEntry(c) ==
    /\ c.op = "futures_create_order" /\ c.kw.type = "STOP_MARKET"
    /\ c.kw.stopPrice = mon.entry_price

IsTrailingStop(c) ==
    /\ c.op = "futures_create_order" /\ c.kw.type = "TRAILING_STOP_MARKET"
    /\ c.kw.activationPrice = ActivationAtTR[MonArgs]

AllMonCallsOk == \A i \in DOMAIN mon.calls : mon.calls[i].ok

\* C11: with every cancel and create succeeding, the task issues no cancel
\* or create while every polled price is short of the break-even threshold;
\* in the first poll at or past it, it cancels the fixed stop and places one
\* stop at the entry price; in the first later poll at or past the trailing
\* threshold it cancels that stop, places one trailing stop with that
\* threshold as activation price, and ends; over the whole run exactly one
\* break-even stop and one trailing stop are placed.
C11_EscalationSequence ==
    (mon.pc # "none" /\ AllMonCallsOk) =>
      LET c == mon.calls
          n == Len(mon.calls)
      IN  /\ FirstBE = 0 => (n = 0 /\ mon.pc = "poll")
          /\ n >= 1 => (FirstBE # 0 /\ IsCancelOf(c[1], MonSlOrderId)
                          /\ mon.at[1] = FirstBE)
          /\ n >= 2 => (IsStopAtEntry(c[2]) /\ mon.at[2] = FirstBE)
          /\ n >= 3 => (FirstTR # 0 /\ IsCancelOf(c[3], c[2].resp.orderId)
                          /\ mon.at[3] = FirstTR)
          /\ n >= 4 => (IsTrailingStop(c[4]) /\ mon.at[4] = FirstTR)
          /\ n <= 4
          /\ (mon.pc = "poll" /\ FirstBE # 0) => (n = 2 /\ FirstTR = 0)
          /\ mon.pc = "ended" <=> n = 4
          /\ mon.pc = "ended" => Len(mon.ticks) = FirstTR

(***************************************************************************)
(* Properties of the reconciler.                                           *)
(***************************************************************************)
\* The event is an order update of a filled trailing stop whose symbol had a
\* registered take-profit id when the handler started.
ToConsume(x) ==
    /\ x.data.e = "ORDER_TRADE_UPDATE"
    /\ x.data.o = "TRAILING_STOP_MARKET"
    /\ x.data.X = "FILLED"
    /\ x.data.s \in DOMAIN x.before

\* The handled events of the history, in order.
Handled == SelectSeq(ws.log, LAMBDA x : x.kind = "event")

\* Those for which a cancel call was issued.
Cancelling == SelectSeq(ws.log, LAMBDA x : x.kind = "event" /\ x.cancels = 1)

\* The cancel calls whose handler has finished.
FinishedCancels ==
    IF ws.pc = "cancelling" THEN SubSeq(calls, 1, Len(calls) - 1) ELSE calls

\* C12: an order update of a filled trailing stop, for a symbol with a
\* registered take-profit id, makes _handle_event issue exactly one cancel
\* call, for that id, and remove the symbol's entry whether the cancel
\* succeeds or fails, without a second attempt; a second identical event
\* right after it issues no cancel call and leaves the registry as it is.
C12_ReconcilerConsumes ==
    /\ \A i \in DOMAIN ws.log :
         (ws.log[i].kind = "event" /\ ToConsume(ws.log[i]))
           => /\ ws.log[i].cancels = 1
              /\ ws.log[i].id = ws.log[i].before[ws.log[i].data.s]
              /\ ws.log[i].data.s \notin DOMAIN ws.log[i].after
              /\ (i + 1 \in DOMAIN ws.log
                    /\ ws.log[i + 1].kind = "event"
                    /\ ws.log[i + 1].data = ws.log[i].data)
                   => /\ ws.log[i + 1].cancels = 0
                      /\ ws.log[i + 1].after = ws.log[i].after
    /\ Len(FinishedCancels) = Len(Cancelling)
    /\ \A k \in DOMAIN Cancelling :
         /\ FinishedCancels[k].op = "futures_cancel_order"
         /\ FinishedCancels[k].kw =
              [symbol |-> Cancelling[k].data.s, orderId |-> Cancelling[k].id]
         /\ FinishedCancels[k].ok = Cancelling[k].ok

\* Id 42 registered for BTCUSDT, the fill of its trailing stop handled with a
\* cancel that failed, the same event handled again: one cancel call, for
\* 42, and an empty registry.
C12_Witness ==
    /\ Len(ws.log) = 3
    /\ ws.log[1].kind = "register" /\ ws.log[1].data.s = "BTCUSDT"
    /\ ws.log[1].id = 42
    /\ ws.log[2].kind = "event" /\ ws.log[2].cancels = 1 /\ ~ws.log[2].ok
    /\ ws.log[3].kind = "event" /\ ws.log[3].data = ws.log[2].data
    /\ Len(calls) = 1 /\ calls[1].kw.orderId = 42 /\ ~calls[1].ok
    /\ tp_orders = <<>>

\* C20: an event that is no order update, or not of a trailing stop, or not
\* filled, or whose symbol has no registered take-profit id, makes
\* _handle_event issue no cancel call and leaves the whole registry
\* unchanged; and handling a filled trailing stop of one symbol changes no
\* other symbol's entry.
C20_ReconcilerIgnoresOthers ==
    /\ \A i \in DOMAIN ws.log :
         ws.log[i].kind = "event"
           => /\ ~ToConsume(ws.log[i])
                   => /\ ws.log[i].cancels = 0
                      /\ ws.log[i].after = ws.log[i].before
                      /\ ws.log[i].pre = ws.log[i].before
              /\ \A t \in DOMAIN ws.log[i].pre :
                   t # ws.log[i].data.s
                     => /\ t \in DOMAIN ws.log[i].after
                        /\ ws.log[i].after[t] = ws.log[i].pre[t]
              /\ DOMAIN ws.log[i].after \subseteq DOMAIN ws.log[i].pre
    /\ Len(calls) = Len(Cancelling) + (IF ws.pc = "cancelling" THEN 1 ELSE 0)

\* Both symbols registered, then the fill of BTCUSDT's trailing stop: the
\* entry of ETHUSDT is still there.
C20_Witness ==
    /\ Len(ws.log) = 3
    /\ ws.log[3].kind = "event" /\ ws.log[3].cancels = 1
    /\ ws.log[3].data.s = "BTCUSDT"
    /\ DOMAIN ws.log[3].before = {"BTCUSDT", "ETHUSDT"}
    /\ DOMAIN tp_orders = {"ETHUSDT"}
    /\ tp_orders["ETHUSDT"] = ws.log[3].before["ETHUSDT"]

\* Events of every ignored kind were handled with a registration in place.
C20_WitnessIgnored ==
    /\ Len(ws.log) = 3
    /\ ws.log[1].kind = "register"
    /\ ws.log[2].kind = "event" /\ ws.log[2].data.X = "NEW"
    /\ ws.log[2].data.o = "TRAILING_STOP_MARKET"
    /\ ws.log[2].data.e = "ORDER_TRADE_UPDATE"
    /\ ws.log[2].data.s = ws.log[1].data.s
    /\ ws.log[3].kind = "event" /\ ws.log[3].data.s = "None"
    /\ calls = <<>>
    /\ tp_orders = ws.log[1].after

(***************************************************************************)
(* Further properties of place_trade.                                      *)
(***************************************************************************)
\* The stop-loss orders place_trade got accepted.
StopLossAccepted ==
    SelectSeq(calls, LAMBDA c : IsCreate(c) /\ c.ok /\ c.kw.type = "STOP_MARKET")

\* C13: with trailing enabled place_trade starts exactly one monitor task,
\* only once the stop-loss order was accepted, with the symbol, the rounded
\* entry price, the atr, the side and the order id returned for the
\* stop-loss; it starts none when an earlier step failed or trailing is
\* disabled; and it returns without the task having run.
C13_MonitorHandOff ==
    /\ Len(tasks) <= 1
    /\ tasks # <<>> <=> (cfg.USE_TRAILING_STOP /\ StopLossAccepted # <<>>)
    /\ tasks # <<>>
         => /\ Len(StopLossAccepted) = 1
            /\ calls[Len(calls)] = StopLossAccepted[1]
            /\ tasks[1] = [sym |-> args.symbol,
                           entry_price |-> <<args.price \div 2, 0>>,
                           atr |-> args.atr,
                           side |-> args.side,
                           sl_order_id |-> StopLossAccepted[1].resp.orderId]
            /\ pc = "done"
            /\ mon.pc = "none"

\* A long NEARUSDT trade at 1001.5 price steps handed over: the task has the
\* rounded entry of 1001 steps and the stop-loss order's id.
C13_Witness ==
    /\ result = "True"
    /\ cfg.USE_TRAILING_STOP
    /\ Len(tasks) = 1
    /\ tasks[1].sym = "NEARUSDT" /\ tasks[1].side = "BUY"
    /\ args.price = 2003
    /\ tasks[1].entry_price = <<1001, 0>>
    /\ tasks[1].atr = 4
    /\ tasks[1].sl_order_id = orders.sl /\ orders.sl = 3

\* Trailing disabled: every order accepted, True returned, no task.
C13_WitnessDisabled ==
    /\ result = "True" /\ ~cfg.USE_TRAILING_STOP
    /\ StopLossAccepted # <<>> /\ tasks = <<>>

\* C14: with market take-profit configured, the take-profit order submitted
\* is a TAKE_PROFIT_MARKET order on the side opposite to the entry carrying
\* a stopPrice, a quantity, reduceOnly=True and closePosition=True.
C14_MarketTakeProfitCarriesQuantity ==
    \A i \in DOMAIN calls :
        (cfg.USE_MARKET_TP /\ IsCreate(calls[i])
           /\ calls[i].kw.side = Opposite(args.side)
           /\ calls[i].kw.type # "STOP_MARKET")
          => /\ calls[i].kw.type = "TAKE_PROFIT_MARKET"
             /\ "stopPrice" \in DOMAIN calls[i].kw
             /\ "quantity" \in DOMAIN calls[i].kw
             /\ calls[i].kw.quantity = loc.qty
             /\ calls[i].kw.reduceOnly
             /\ calls[i].kw.closePosition

\* The single Gateway calls that raised.
FailedCalls == SelectSeq(calls, LAMBDA c : ~c.ok)

\* C19: when one Gateway call of place_trade (position query, leverage
\* change, entry, take-profit or stop-loss creation, status query) fails once
\* and nothing else goes wrong, the failure is absorbed and place_trade
\* returns True; place_trade returns False on Gateway failures only after
\* DefaultRetries consecutive failures of one call.
C19_TransientErrorsAbsorbed ==
    /\ (pc = "done" /\ Len(FailedCalls) = 1 /\ faults = 1
          /\ ~Logged("existing_position") /\ ~Logged("entry_not_filled"))
         => result = "True"
    /\ (pc = "done" /\ result = "False" /\ FailedCalls # <<>>)
         => \E i \in DOMAIN calls :
              /\ i + DefaultRetries - 1 <= Len(calls)
              /\ \A k \in 0 .. (DefaultRetries - 1) :
                   /\ ~calls[i + k].ok
                   /\ calls[i + k].op = calls[i].op
                   /\ calls[i + k].kw = calls[i].kw

(***************************************************************************)
(* Further properties of the monitor task.                                 *)
(***************************************************************************)
\* C15: from ARMED or from BREAK_EVEN, a poll that observes the price at or
\* past the trailing activation threshold cancels the current stop and
\* places the trailing stop in that same poll, without placing a break-even
\* stop first.
C15_DirectEscalation ==
    \A i \in DOMAIN mon.ticks :
        PastTR(mon.ticks[i])
          => /\ \A k \in DOMAIN mon.calls :
                  mon.at[k] = i => ~IsStopAtEntry(mon.calls[k])
             /\ (mon.pc \in {"poll", "ended"} /\ AllMonCallsOk)
                  => \E k \in DOMAIN mon.calls :
                       mon.at[k] = i /\ IsTrailingStop(mon.calls[k])

\* C16: a failed price query leaves the task running with the same tracked
\* stop id and break-even flag, adds no cancel or create call, and is
\* followed by the sleep that precedes the next poll.
C16_PriceFailureChangesNothing ==
    [][ (Len(mon'.ticks) = Len(mon.ticks) + 1
           /\ mon'.ticks[Len(mon'.ticks)] = -1)
          => /\ mon'.pc = "poll"
             /\ mon'.sl_order_id = mon.sl_order_id
             /\ mon'.break_even_set = mon.break_even_set
             /\ mon'.calls = mon.calls
             /\ mon'.sleeps = mon.sleeps + 1 ]_vars

\* Two failed queries, break-even reached in the third poll, a failed query
\* after it: the task still polls and tracks the break-even stop.
C16_Witness ==
    /\ mon.ticks = <<-1, -1, 1060, -1>>
    /\ mon.side = "BUY" /\ mon.atr = 200
    /\ mon.pc = "poll"
    /\ mon.break_even_set
    /\ mon.sl_order_id = MonSlOrderId + 1
    /\ Len(mon.calls) = 2

\* The call is the creation of a trailing stop.
IsTrailingCreate(c) ==
    c.op = "futures_create_order" /\ c.kw.type = "TRAILING_STOP_MARKET"

\* C17: the task ends as soon as it has placed (or failed to place) the
\* trailing stop or a cancel or create call has failed, and issues no
\* Gateway call and polls no price after that: a failed call or a trailing
\* stop placement is always the last call, made in the last poll.
C17_TerminalStatesFinal ==
    LET n == Len(mon.calls) IN
    /\ \A i \in 1 .. (n - 1) :
         mon.calls[i].ok /\ ~IsTrailingCreate(mon.calls[i])
    /\ mon.pc = "ended"
         <=> (n >= 1 /\ (~mon.calls[n].ok \/ IsTrailingCreate(mon.calls[n])))
    /\ mon.pc = "ended" => mon.at[n] = Len(mon.ticks)

\* The cancel went through and the break-even stop was refused in the first
\* poll: the task has ended with polls to spare, and placed nothing else.
C17_Witness ==
    /\ mon.pc = "ended"
    /\ Len(mon.ticks) = 1
    /\ Len(mon.calls) = 2
    /\ mon.calls[1].ok /\ mon.calls[1].op = "futures_cancel_order"
    /\ ~mon.calls[2].ok /\ mon.calls[2].kw.type = "STOP_MARKET"
    /\ PastTR(mon.ticks[1])

\* Ids of the stops placed for the trade among the first k calls of the
\* task, the pipeline's stop-loss included, that no successful cancel among
\* them has removed.
OpenStops(k) ==
    ({MonSlOrderId}
       \cup {mon.calls[i].resp.orderId :
               i \in {j \in 1 .. k : mon.calls[j].op = "futures_create_order"
                                      /\ mon.calls[j].ok}})
    \ {mon.calls[i].kw.orderId :
         i \in {j \in 1 .. k : mon.calls[j].op = "futures_cancel_order"
                                /\ mon.calls[j].ok}}

\* The stop placed most recently before call k: the last break-even stop
\* accepted, else the pipeline's stop-loss.
LatestStop(k) ==
    LET placed == {j \in 1 .. (k - 1) :
                     mon.calls[j].op = "futures_create_order" /\ mon.calls[j].ok}
    IN  IF placed = {} THEN MonSlOrderId
        ELSE mon.calls[CHOOSE j \in placed : \A l \in placed : l <= j].resp.orderId

\* C18: at every moment at most one stop placed for the trade (fixed,
\* break-even, trailing) is not cancelled; the task places a stop only right
\* after a successful cancel; and each cancel targets the stop placed most
\* recently.
C18_AtMostOneStop ==
    mon.pc # "none" =>
      \A k \in 0 .. Len(mon.calls) :
        /\ Cardinality(OpenStops(k)) <= 1
        /\ (k >= 1 /\ mon.calls[k].op = "futures_create_order")
             => /\ k >= 2
                /\ mon.calls[k - 1].op = "futures_cancel_order"
                /\ mon.calls[k - 1].ok
                /\ OpenStops(k - 1) = {}
        /\ (k >= 1 /\ mon.calls[k].op = "futures_cancel_order")
             => /\ mon.calls[k].kw.orderId = LatestStop(k)
                /\ OpenStops(k - 1) = {LatestStop(k)}

\* Both replacements went through: the trailing stop is the only stop left.
C18_Witness ==
    /\ mon.pc = "ended"
    /\ Len(mon.calls) = 4 /\ AllMonCallsOk
    /\ mon.calls[3].kw.orderId = MonSlOrderId + 1
    /\ OpenStops(3) = {}
    /\ OpenStops(4) = {MonSlOrderId + 2}

(***************************************************************************)
(* The protective orders of a trade.                                       *)
(***************************************************************************)
\* Index in `calls` of the entry order the exchange accepted (0: none yet).
EntryIdx ==
    LET ok == {i \in DOMAIN calls : IsCreate(calls[i]) /\ calls[i].ok}
    IN  IF ok = {} THEN 0 ELSE CHOOSE i \in ok : \A j \in ok : i <= j

\* The tasks place_trade creates for the trades of the model, each as it
\* starts.
StartedTasks ==
    [t \in UNION {{[sym |-> sym, entry_price |-> Px(RoundedPrice(sym, pa[1]), 0),
                    atr |-> pa[2], sl_order_id |-> MonSlOrderId, side |-> sd] :
                      sd \in Sides, pa \in PriceAtr(sym)} :
                  sym \in Symbols \cap DOMAIN LEVERAGE_MAP}
       |-> MonStart(t)]

\* The monitor task created with the arguments t, as it starts.
Started(t) == IF t \in DOMAIN StartedTasks THEN StartedTasks[t] ELSE MonStart(t)

\* Keyword arguments of the protective orders place_trade submitted for the
\* trade: the create calls it issued after the entry (take-profit and
\* stop-loss, accepted or refused).
PlacedProtectiveOrders ==
    {calls[i].kw : i \in {j \in DOMAIN calls :
                            EntryIdx > 0 /\ j > EntryIdx /\ IsCreate(calls[j])}}

\* Keyword arguments of the break-even and trailing stops that the monitor
\* task started for the trade submits.
MonitorProtectiveOrders ==
    {BreakEvenOrder(Started(tasks[i])) : i \in DOMAIN tasks}
    \cup {TrailingOrder(Started(tasks[i])) : i \in DOMAIN tasks}

\* The order is on the side opposite to the entry and reduce-only.
OppositeReduceOnly(kw) ==
    /\ kw.side # args.side
    /\ kw.side \in Sides
    /\ "reduceOnly" \in DOMAIN kw /\ kw.reduceOnly = TRUE

\* The order closes the whole position at its trigger.
ClosesPosition(kw) ==
    "closePosition" \in DOMAIN kw /\ kw.closePosition = TRUE

\* C21 as stated: every protective order is on the side opposite to the
\* entry, reduce-only, and has close-position semantics, under every
\* configuration of entry and take-profit order type.
C21_AllProtectiveClosePosition ==
    /\ \A kw \in PlacedProtectiveOrders :
         OppositeReduceOnly(kw) /\ ClosesPosition(kw)
    /\ \A kw \in MonitorProtectiveOrders :
         OppositeReduceOnly(kw) /\ ClosesPosition(kw)

\* C21, amended: every protective order is on the side opposite to the entry
\* and reduce-only; each has close-position semantics except the limit
\* take-profit, which has no closePosition flag and carries the quantity of
\* the entry order instead.
C21_ProtectiveOrders ==
    /\ \A kw \in PlacedProtectiveOrders :
         /\ OppositeReduceOnly(kw)
         /\ IF kw.type = "LIMIT"
            THEN /\ ~cfg.USE_MARKET_TP
                 /\ "closePosition" \notin DOMAIN kw
                 /\ kw.quantity = calls[EntryIdx].kw.quantity
            ELSE ClosesPosition(kw)
    /\ \A kw \in MonitorProtectiveOrders :
         OppositeReduceOnly(kw) /\ kw.type # "LIMIT" /\ ClosesPosition(kw)

\* A trade with a limit take-profit: the stop-loss is accepted and the
\* monitor task started; four protective orders in all.
C21_Witness ==
    /\ result = "True"
    /\ ~cfg.USE_MARKET_TP
    /\ Len(tasks) = 1
    /\ Cardinality(PlacedProtectiveOrders) = 2
    /\ Cardinality(MonitorProtectiveOrders) = 2
    /\ \E kw \in PlacedProtectiveOrders : kw.type = "LIMIT"
    /\ \E kw \in MonitorProtectiveOrders : kw.type = "TRAILING_STOP_MARKET"

(***************************************************************************)
(* The monitor task and the lifetime of its trade.                         *)
(***************************************************************************)
\* C22: once the trade's position has been closed, the trade's monitor task
\* issues no further cancel or create call.
C22_NoCallAfterClose ==
    mon.closed_at >= 0 => Len(mon.calls) = mon.closed_at

(***************************************************************************)
(* The registry under interleaving.                                        *)
(***************************************************************************)
\* C23: the reconciler removes from the registry only the take-profit id for
\* which it issued the cancel call; an id that place_trade registers for the
\* same symbol while that cancel is in flight is still registered when the
\* handler has finished.
C23_NoLostRegistration ==
    \A i \in DOMAIN ws.log :
        (ws.log[i].kind = "event" /\ ws.log[i].cancels = 1)
          => LET x == ws.log[i]
                 sym == x.data.s
             IN  IF sym \in DOMAIN x.pre /\ x.pre[sym] # x.id
                 THEN sym \in DOMAIN x.after /\ x.after[sym] = x.pre[sym]
                 ELSE sym \notin DOMAIN x.after

(***************************************************************************)
(* The size of the entry order.                                            *)
(***************************************************************************)
\* Quantity steps times price steps in one unit of notional.
StepsPerUnit(symbol) ==
    LET prec == PrecisionOf(symbol)
    IN  (prec.priceDen * prec.qtyDen) \div prec.qtyNum

\* C24: every entry order place_trade submits carries a strictly positive
\* quantity, and that quantity times the rounded entry price is at least the
\* minimum notional.
C24_EntryMeetsMinNotional ==
    \A i \in DOMAIN calls :
        (IsCreate(calls[i]) /\ (EntryIdx = 0 \/ i <= EntryIdx))
          => /\ calls[i].kw.quantity > 0
             /\ calls[i].kw.quantity * loc.price[1]
                  >= cfg.MIN_NOTIONAL * StepsPerUnit(args.symbol)

(***************************************************************************)
(* Completion of the escalation.                                           *)
(***************************************************************************)
\* The latest poll returned a price at or past the trailing threshold.
LastPastTR ==
    Len(mon.ticks) >= 1 /\ PastTR(mon.ticks[Len(mon.ticks)])

\* The task has placed the trailing stop and ended.
TrailingPlaced ==
    /\ mon.pc = "ended"
    /\ Len(mon.calls) >= 1
    /\ IsTrailingStop(mon.calls[Len(mon.calls)])
    /\ mon.calls[Len(mon.calls)].ok

\* With every call succeeding, a run of polls at or past the trailing
\* threshold that starts at poll k is over after poll k + 1: the task does
\* not poll a third time, and after the second poll of the run it is placing
\* or has placed the trailing stop.
WithinTwoPolls ==
    \A k \in DOMAIN mon.ticks :
        (AllMonCallsOk /\ \A j \in k .. Len(mon.ticks) : PastTR(mon.ticks[j]))
          => /\ Len(mon.ticks) <= k + 1
             /\ Len(mon.ticks) = k + 1
                  => mon.pc \in {"tr_cancel", "tr_create", "ended"}
             /\ mon.pc = "ended" => TrailingPlaced

\* While no polled price has reached the break-even threshold the task has
\* not ended (and has called nothing).
RunsWhileShortOfBreakEven ==
    (mon.pc # "none" /\ \A j \in DOMAIN mon.ticks : ~PastBE(mon.ticks[j]))
      => mon.pc = "poll" /\ mon.calls = <<>>

\* C25: if every call succeeds and from some poll on every polled price is
\* at or past the trailing threshold, the task, scheduled fairly, places the
\* trailing stop and ends, within two polls of that point; and while no
\* polled price reaches the break-even threshold it does not end.  Over the
\* polls the model follows: from a poll at or past the threshold the task
\* goes on until it has placed the trailing stop and ended, unless a call
\* fails, a later poll falls short of the threshold, or the polls followed
\* are used up.
C25_EscalationCompletes ==
    /\ []WithinTwoPolls
    /\ []RunsWhileShortOfBreakEven
    /\ (AllMonCallsOk /\ LastPastTR)
         ~> \/ TrailingPlaced
            \/ ~AllMonCallsOk
            \/ ~LastPastTR
            \/ (Len(mon.ticks) = MaxTicks /\ mon.pc = "poll")

====
